---- MODULE Spec2Model ----
(***************************************************************************)
(* Model of the greek_bot quiz engine: the question sampler                *)
(* (QuestionGenerator.createQuestion), the session store                   *)
(* (SessionsRepository) and the game variants' level and answer handlers   *)
(* (LeveledBaseGame, ChoiceGame, TextGame, TextTopicGame, FactQuizGame).   *)
(*                                                                         *)
(* Conventions.  A scats Option is a sequence of length 0 (none) or 1      *)
(* (some): None == <<>>, Some(x) == <<x>>.  Collections indexed from 0 in  *)
(* the code are TLA+ sequences read with At(s, i) == s[i + 1]; indices     *)
(* stored in the session (correctIndex, answerIndex) stay 0-based.         *)
(***************************************************************************)
EXTENDS Integers, Sequences, FiniteSets, TLC

VARIABLES
    store,          \* sessions table: session id -> Option<Session>
    nextSessionId,  \* SessionId.next(): the next fresh session id
    nextMessageId,  \* message id the transport gives the next question message
    asked,          \* history: session id -> answer keys drawn for it so far
    update,         \* the inbound update handled last
    actions,        \* the actions returned (and rendered) for that update
    puts,           \* session ids written by putSession during that update
    metrics,        \* counters incremented during that update
    generateCalls,  \* calls of FactQuestionService.generate made during that update
    emission,       \* what became of the counters of that update at the metrics sink
    sinks,          \* exploration bound: the states the metrics sink takes in this run
    answerLimit,    \* exploration bound: scored answers one session gets in this run
    sessionLimit,   \* exploration bound: sessions created in this run
    calls,          \* overlapping answers: handler -> where its invoke stands
    factRequest,    \* fact service run: the configuration and the provider's response
    factResult,     \* fact service run: the outcome of generate
    invocation,     \* handler run: the inbound event and what the collaborators do
    response,       \* handler run: what the invocation ended with
    probe,          \* function run: a pure function, its arguments and its result
    genTerms,       \* sampler run: the size of the pool
    genStart,       \* sampler run: the remaining ids the run started with
    genRemaining,   \* sampler run: the remaining ids fed to the next call
    genPack,        \* sampler run: the result of the last call
    genInput,       \* sampler run: the remaining ids the last call was given
    genCalls        \* sampler run: calls that returned a question

vars == <<store, nextSessionId, nextMessageId, asked, update, actions, puts, metrics,
          generateCalls, emission, sinks, answerLimit, sessionLimit, calls,
          factRequest, factResult,
          invocation, response, probe,
          genTerms, genStart, genRemaining, genPack, genInput, genCalls>>

quizVars == <<store, nextSessionId, nextMessageId, asked, update, actions, puts,
              metrics, generateCalls, emission>>

limits == <<answerLimit, sessionLimit, sinks>>

genVars == <<genTerms, genStart, genRemaining, genPack, genInput, genCalls>>

\* the variables of the runs beside the quiz
factVars == <<factRequest, factResult>>

handlerVars == <<invocation, response>>

sideVars == <<genVars, calls, factVars, handlerVars, probe>>

----------------------------------------------------------------------------
(* Bounds of the model. *)

\* sessions created in a run that plays them
MaxSessions == 1

\* sessions created in a run that only starts them
MaxOwnerSessions == 2

\* message ids the transport can hand out to question messages during a run
MaxMessages == 4

\* answers scored against one session in a run that plays sessions to their end
MaxAsked == 5

\* answers scored against one session in a run of all the games
MaxRound == 1

\* answers scored against one session in a run with late renders
MaxWindowAsked == 2

\* largest pool the sampler is run on
MaxPool == 5

----------------------------------------------------------------------------
(* Options and 0-based collections. *)

None == <<>>

Some(x) == <<x>>

IsDefined(o) == o # <<>>

Get(o) == o[1]

At(s, i) == s[i + 1]

\* indexOf taken as a 1-based position
IndexOfOneBased(s, x) ==
    IF \E i \in 1..Len(s) : s[i] = x
    THEN CHOOSE i \in 1..Len(s) : s[i] = x /\ \A j \in 1..(i - 1) : s[j] # x
    ELSE -1

\* Collection.indexOf: the first 0-based position of x in s, -1 when absent
IndexOf(s, x) ==
    IF \E i \in 1..Len(s) : s[i] = x
    THEN (CHOOSE i \in 1..Len(s) : s[i] = x /\ \A j \in 1..(i - 1) : s[j] # x) - 1
    ELSE -1

\* ids filled from 1
FillOneBased(n) == [i \in 1..n |-> i]

\* Collection.fill(n)(index => index): <<0, 1, ..., n-1>>
Fill(n) == [i \in 1..n |-> i - 1]

\* Collection.filter(id => id !== x), order kept
RECURSIVE Without(_, _)
Without(s, x) ==
    IF s = <<>> THEN <<>>
    ELSE IF Head(s) = x THEN Without(Tail(s), x)
         ELSE <<Head(s)>> \o Without(Tail(s), x)

\* Array.slice(0, n)
SliceTo(s, n) == SubSeq(s, 1, IF Len(s) < n THEN Len(s) ELSE n)

Swap(s, i, j) == [s EXCEPT ![i + 1] = s[j + 1], ![j + 1] = s[i + 1]]

----------------------------------------------------------------------------
(* QuestionGenerator *)

\* QuestionGenerator.randomInt(max): any integer of [0, max)
RandomInt(max) == 0..(max - 1)

\* The Fisher-Yates loop of QuestionGenerator.shuffle from position i down:
\* every outcome of "j = randomInt(i + 1); swap(copy[i], copy[j])".
RECURSIVE ShuffleFrom(_, _)
ShuffleFrom(copy, i) ==
    IF i <= 0 THEN {copy}
    ELSE UNION {ShuffleFrom(Swap(copy, i, j), i - 1) : j \in RandomInt(i + 1)}

\* QuestionGenerator.shuffle(items): the set of its possible results
Shuffle(items) == ShuffleFrom(items, Len(items) - 1)

\* new SessionQuestion(verbId, options, correctIndex, none)
SessionQuestion(verbId, options, correctIndex) ==
    [verbId |-> verbId, options |-> options, correctIndex |-> correctIndex,
     messageId |-> None, promptText |-> None]

\* The number of distractors createQuestion keeps: slice(0, 3)
DistractorCount == 3

\* The answer keys createQuestion can draw: remainingIds.toCollection.get(pickIndex)
\* with pickIndex = randomInt(remainingIds.size); a HashSet has no fixed order, so
\* every element can be the one at pickIndex.
PickIds(remainingIds) ==
    {id \in remainingIds : RandomInt(Cardinality(remainingIds)) # {}}

\* removed that leaves the set as it was
RemovedNothing(remainingIds, verbId) == remainingIds

\* remainingIds.removed(verbId)
Removed(remainingIds, verbId) == remainingIds \ {verbId}

\* distractors drawn from the whole pool, the answer key included
SelectedDistractorsWithKey(terms, verbId) ==
    {SliceTo(d, DistractorCount) : d \in Shuffle(Fill(terms))}

\* this.shuffle(distractors).slice(0, 3)
SelectedDistractors(terms, verbId) ==
    {SliceTo(d, DistractorCount) : d \in Shuffle(Without(Fill(terms), verbId))}

\* QuestionGenerator.createQuestion(terms, remainingIds): the set of its possible
\* results, each an Option: None for null, Some([question, remaining]) otherwise.
\* terms is the number of items of the pool.
CreateQuestion(terms, remainingIds) ==
    IF remainingIds = {} THEN {None}
    ELSE {Some([question |-> SessionQuestion(verbId, options, IndexOf(options, verbId)),
                remaining |-> Removed(remainingIds, verbId)]) :
            <<verbId, options>> \in
              UNION {UNION {{<<v, o>> : o \in Shuffle(<<v>> \o sel)} :
                               sel \in SelectedDistractors(terms, v)} :
                        v \in PickIds(remainingIds)}}

----------------------------------------------------------------------------
(* Data the external collaborators serve. *)

Users == {1}

Levels == {"a1", "b1"}

GrRu == "gr-ru"

RuGr == "ru-gr"

Write == "write"

TextTopic == "text-topic"

FactQuiz == "fact-quiz"

\* the modes a level can be selected for in this model
Modes == {GrRu, Write, TextTopic, FactQuiz}

\* GoogleSpreadsheetsService.loadDataBase(level).get(mode).length: the terms sheet
\* of level a1 has the minimum a session needs, the sheet of b1 one fewer
TermsCount(level) == IF level = "a1" THEN 4 ELSE 3

\* GoogleSpreadsheetsService.loadTextTopics(level).length
TextTopicsCount(level) == IF level = "a1" THEN 4 ELSE 3

\* GoogleSpreadsheetsService.loadFactTopics(level).length
FactTopicsCount(level) == IF level = "a1" THEN 2 ELSE 0

\* the fact texts the AI provider can return
Facts == {"fact"}

SessionIds == 1..MaxOwnerSessions

\* the buttons of the answer keyboard a user presses: the first and the last of
\* the four
AnswerIndices == {0, 3}

\* A text is a sequence of characters: a letter has a base, may carry an accent
\* mark (one of U+0300, U+0301, U+0342, U+0344, U+0345 in its decomposed form),
\* may carry a diaeresis (U+0308) and may be upper case; Space is a blank.
Mark(b, a, d, u) == [base |-> b, accent |-> a, diaeresis |-> d, upper |-> u]

\* a letter without a diaeresis
Letter(b, a, u) == Mark(b, a, FALSE, u)

Space == Mark(-1, FALSE, FALSE, FALSE)

\* Term.greek of the term at index verbId: one accented lower-case letter
Greek(verbId) == <<Letter(verbId, TRUE, FALSE)>>

\* the texts a user sends: a blank, the greek of term 0 as stored, and its
\* unaccented upper-case form
Texts == {<<Space>>, Greek(0), <<Letter(0, FALSE, TRUE)>>}

----------------------------------------------------------------------------
(* SessionsRepository *)

\* totalCount taken after the first question has been drawn
CreateSessionCountingRemaining(sessionId, userId, level, mode, ids) ==
    [sessionId |-> sessionId, userId |-> userId, level |-> level, mode |-> mode,
     remainingIds |-> ids, totalAsked |-> 0, correctCount |-> 0,
     totalCount |-> Cardinality(ids) - 1, current |-> None, recentFacts |-> <<>>]

\* SessionsRepository.createSession(userId, level, mode, remainingIds)
CreateSession(sessionId, userId, level, mode, ids) ==
    [sessionId |-> sessionId, userId |-> userId, level |-> level, mode |-> mode,
     remainingIds |-> ids, totalAsked |-> 0, correctCount |-> 0,
     totalCount |-> Cardinality(ids), current |-> None, recentFacts |-> <<>>]

\* a conditional put: refused when the stored session already has the question and
\* the totalAsked of the one put
PutSessionIfBehind(st, session) ==
    IF /\ st[session.sessionId] # <<>>
       /\ st[session.sessionId][1].totalAsked >= session.totalAsked
       /\ st[session.sessionId][1].current = session.current
    THEN st
    ELSE [st EXCEPT ![session.sessionId] = <<session>>]

\* SessionsRepository.putSession(session): an unconditional put under the session id
PutSession(st, session) == [st EXCEPT ![session.sessionId] = Some(session)]

\* SessionsRepository.getSession(sessionId)
GetSession(st, sessionId) == IF sessionId \in DOMAIN st THEN st[sessionId] ELSE None

\* SessionsRepository.getSessionByUserId(userId): the possible results of the
\* userId-index query with Limit 1; the index has no sort key, so any session of
\* the user can be the one returned.
GetSessionByUserId(st, userId) ==
    LET own == {id \in DOMAIN st : IsDefined(st[id]) /\ Get(st[id]).userId = userId}
    IN  IF own = {} THEN {None} ELSE {st[id] : id \in own}

\* SessionsRepository.deleteSession(sessionId)
DeleteSession(st, sessionId) == [st EXCEPT ![sessionId] = None]

----------------------------------------------------------------------------
(* Actions (src/action.ts) and the menu *)

AnswerCallback == [type |-> "AnswerCallback"]

SendTgMessage(action) == [type |-> "SendTgMessage", action |-> action]

\* the start menu sent twice
MenuStartTwice ==
    <<SendTgMessage("renderStartMenu"), SendTgMessage("renderStartMenu")>>

\* MenuService.start(chatId)
MenuStart == <<SendTgMessage("renderStartMenu")>>

\* MenuService.levelSelected(chatId, messageId, callbackId, level, mode)
MenuLevelSelected(level, mode) ==
    <<AnswerCallback,
      [type |-> "UpdateLastMessage", action |-> "renderLevelSelected",
       level |-> level, mode |-> mode]>>

\* MenuService.insufficientTerms(chatId)
MenuInsufficientTerms == <<SendTgMessage("renderInsufficientTerms")>>

\* MenuService.questionBuildFailed(chatId)
MenuQuestionBuildFailed == <<SendTgMessage("renderQuestionBuildFailed")>>

\* BaseGame.totalQuestions(session)
TotalQuestions(session) == session.totalCount

\* the question number counted from zero
CurrentQuestionNumberFromZero(session) == session.totalAsked

\* BaseGame.currentQuestionNumber(session)
CurrentQuestionNumber(session) == session.totalAsked + 1

\* BaseGame.sendQuestion / sendTopicQuestion / sendFactQuestion: the question
\* render action, which carries the session to track
SendQuestion(session) ==
    IF ~IsDefined(session.current) THEN <<>>
    ELSE <<[type |-> "SendTgMessage", action |-> "renderQuestion",
            sessionId |-> session.sessionId,
            currentQuestionIndex |-> CurrentQuestionNumber(session),
            totalQuestions |-> TotalQuestions(session)]>>

\* a missing session answered with the callback acknowledgement alone
MissingSessionSilent == <<[type |-> "AnswerCallback"]>>

\* the notice of a missing session or a session without a current question
MissingSession == <<AnswerCallback, SendTgMessage("renderMissingSession")>>

\* a stale answer reported as a missing session
InactiveQuestionAsMissing ==
    <<[type |-> "AnswerCallback"], SendTgMessage("renderMissingSession")>>

\* the notice of an answer to a message that is not the tracked one
InactiveQuestion == <<AnswerCallback, SendTgMessage("renderInactiveQuestion")>>

\* the answer-result edit
AnswerResult(messageId, index, total, isCorrect) ==
    [type |-> "UpdateLastMessage", action |-> "renderAnswerResult",
     messageId |-> messageId, currentQuestionIndex |-> index,
     totalQuestions |-> total, isCorrect |-> isCorrect]

\* the session-end summary
SessionEnd(session) ==
    [type |-> "SendTgMessage", action |-> "renderSessionEnd",
     correctCount |-> session.correctCount, totalAsked |-> session.totalAsked]

\* TelegramService.sendMessage for a question: the message ids its response can
\* carry, None when the response has no result
SendMessageIds == {None, Some(nextMessageId)}

\* BaseGame.trackSessionMessage(payload, messageId): the store after it
TrackSessionMessage(st, trackSession, messageId) ==
    IF ~IsDefined(messageId) THEN st
    ELSE PutSession(st,
            [trackSession EXCEPT !.current =
                IF IsDefined(@) THEN Some([Get(@) EXCEPT !.messageId = messageId])
                ELSE None])

\* the puts of trackSessionMessage
TrackPuts(trackSession, messageId) ==
    IF ~IsDefined(messageId) THEN <<>> ELSE <<trackSession.sessionId>>

----------------------------------------------------------------------------
(* Level selection *)

\* MetricsService.putMetric(metricName, value, dimensions): the command is sent;
\* when the sink fails, the send rejects
PutMetric(metricName, sink) ==
    [threw |-> sink = "down",
     delivered |-> IF sink = "up" THEN <<metricName>> ELSE <<>>,
     warnings |-> <<>>]

\* MetricsService.safePutMetric(metricName, value, dimensions): putMetric in a try;
\* the catch logs metric_error and returns
SafePutMetric(metricName, sink) ==
    [threw |-> FALSE,
     delivered |-> IF sink = "up" THEN <<metricName>> ELSE <<>>,
     warnings |-> IF sink = "up" THEN <<>> ELSE <<metricName>>]

\* MetricCounter.inc(dimensions)
Inc(metricName, sink) == SafePutMetric(metricName, sink)

\* the awaited incs of one update, in their order: an inc that throws ends them
RECURSIVE IncAll(_, _)
IncAll(ms, sink) ==
    IF ms = <<>> THEN [threw |-> FALSE, delivered |-> <<>>, warnings |-> <<>>]
    ELSE LET first == Inc(Head(ms), sink)
         IN  IF first.threw THEN first
             ELSE LET rest == IncAll(Tail(ms), sink)
                  IN  [threw |-> rest.threw,
                       delivered |-> first.delivered \o rest.delivered,
                       warnings |-> first.warnings \o rest.warnings]

\* no counter incremented
NoEmission == [sink |-> "up", threw |-> FALSE, delivered |-> <<>>, warnings |-> <<>>]

\* What one update leaves behind: the update, the store, the rendered actions, the
\* puts and the counters.  The counters go to the sink, which is up or down during
\* the update; an inc that threw would end the update before its result.
Respond(u, st, acts, ps, ms) ==
    \E sink \in sinks :
        LET sent == IncAll(ms, sink)
        IN  /\ emission' = [sink |-> sink, threw |-> sent.threw,
                            delivered |-> sent.delivered, warnings |-> sent.warnings]
            /\ update' = u
            /\ metrics' = ms
            /\ IF sent.threw
               THEN store' = store /\ actions' = <<>> /\ puts' = <<>>
               ELSE store' = st /\ actions' = acts /\ puts' = ps

Range(s) == {s[i] : i \in 1..Len(s)}

\* the least number of fact topics a session is started with
MinFactTopics == 1

\* the minimum of the fact quiz applied to the pool-indexed games
MinTermsAsFactTopics == MinFactTopics

\* the least number of terms (and of text topics) a session is started with
MinTerms == 4

LevelUpdate(chatId, level, mode) ==
    [kind |-> "level", chatId |-> chatId, level |-> level, mode |-> mode]

\* The tail shared by the level handlers of the pool-indexed games: create the
\* session, draw the first question, put, send the question and track its message.
StartPoolSession(chatId, level, mode, sessionMode, count) ==
    LET acts == MenuLevelSelected(level, mode)
        u == LevelUpdate(chatId, level, mode)
    IN  IF count < MinTerms
        THEN /\ Respond(u, store, acts \o MenuInsufficientTerms, <<>>, <<>>)
             /\ UNCHANGED <<nextSessionId, nextMessageId, asked>>
        ELSE /\ nextSessionId <= sessionLimit
             /\ nextMessageId <= MaxMessages
             /\ nextSessionId' = nextSessionId + 1
             /\ LET session == CreateSession(nextSessionId, chatId, level, sessionMode,
                                             Range(Fill(count)))
                IN  \E questionPack \in CreateQuestion(count, session.remainingIds) :
                      IF ~IsDefined(questionPack)
                      THEN /\ Respond(u, store, acts \o MenuQuestionBuildFailed, <<>>, <<>>)
                           /\ UNCHANGED <<nextMessageId, asked>>
                      ELSE LET updated == [session EXCEPT
                                             !.current = Some(Get(questionPack).question),
                                             !.remainingIds = Get(questionPack).remaining]
                           IN  \E messageId \in SendMessageIds :
                                 /\ Respond(u,
                                        TrackSessionMessage(PutSession(store, updated),
                                                            updated, messageId),
                                        acts \o SendQuestion(updated),
                                        <<updated.sessionId>> \o TrackPuts(updated, messageId),
                                        <<"SessionStart", "SessionStartTotal">>)
                                 /\ nextMessageId' =
                                      IF IsDefined(messageId) THEN nextMessageId + 1
                                      ELSE nextMessageId
                                 /\ asked' = [asked EXCEPT ![updated.sessionId] =
                                                {Get(questionPack).question.verbId}]

\* LeveledBaseGame.handleLevel(chatId, messageId, callbackId, level, mode), the
\* level handler of ChoiceGame and TextGame
HandleLevel(chatId, level, mode) ==
    /\ mode \in {GrRu, RuGr, Write}
    /\ StartPoolSession(chatId, level, mode, mode, TermsCount(level))
    /\ generateCalls' = 0
    /\ UNCHANGED sideVars

\* TextTopicGame.handleLevel(chatId, messageId, callbackId, level, mode)
TextTopicHandleLevel(chatId, level, mode) ==
    /\ mode = TextTopic
    /\ StartPoolSession(chatId, level, mode, TextTopic, TextTopicsCount(level))
    /\ generateCalls' = 0
    /\ UNCHANGED sideVars

\* FactQuestionService.generate(level, topic, recentFacts): its possible outcomes,
\* None when it throws (provider error, timeout, invalid response)
Generate ==
    {None} \cup {Some([fact |-> f, correctIndex |-> c]) : f \in Facts, c \in AnswerIndices}

\* MAX_RECENT_FACTS
MaxRecentFacts == 20

\* FactQuizGame.appendRecentFact(recentFacts, fact)
AppendRecentFact(recentFacts, fact) ==
    LET updated == Append(recentFacts, fact)
    IN  IF Len(updated) <= MaxRecentFacts THEN updated
        ELSE SubSeq(updated, Len(updated) - MaxRecentFacts + 1, Len(updated))

\* a failed generation tried once more before giving up
BuildNextQuestionRetrying(session) ==
    IF session.remainingIds = {}
    THEN {[next |-> None, metrics |-> <<>>, calls |-> 0]}
    ELSE {IF ~IsDefined(first) /\ ~IsDefined(second)
          THEN [next |-> None,
                metrics |-> <<"QuestionBuildFailed", "QuestionBuildFailedTotal">>,
                calls |-> 2]
          ELSE LET g == IF IsDefined(first) THEN first ELSE second
               IN  [next |-> Some([session EXCEPT
                        !.current = Some([verbId |-> topicId,
                                          options |-> <<0, 1, 2, 3>>,
                                          correctIndex |-> Get(g).correctIndex,
                                          messageId |-> None,
                                          promptText |-> Some(Get(g).fact)]),
                        !.remainingIds = session.remainingIds \ {topicId},
                        !.recentFacts = AppendRecentFact(session.recentFacts, Get(g).fact)]),
                    metrics |-> <<>>,
                    calls |-> IF IsDefined(first) THEN 1 ELSE 2] :
            topicId \in PickIds(session.remainingIds), first \in Generate,
            second \in Generate}

\* FactQuizGame.buildNextQuestion(session, topics): its possible outcomes, each the
\* Option<Session> returned, the counters incremented and the number of calls of
\* FactQuestionService.generate made
BuildNextQuestion(session) ==
    IF session.remainingIds = {}
    THEN {[next |-> None, metrics |-> <<>>, calls |-> 0]}
    ELSE {IF ~IsDefined(g)
          THEN [next |-> None,
                metrics |-> <<"QuestionBuildFailed", "QuestionBuildFailedTotal">>,
                calls |-> 1]
          ELSE [next |-> Some([session EXCEPT
                    !.current = Some([verbId |-> topicId,
                                      options |-> <<0, 1, 2, 3>>,
                                      correctIndex |-> Get(g).correctIndex,
                                      messageId |-> None,
                                      promptText |-> Some(Get(g).fact)]),
                    !.remainingIds = session.remainingIds \ {topicId},
                    !.recentFacts = AppendRecentFact(session.recentFacts, Get(g).fact)]),
                metrics |-> <<>>,
                calls |-> 1] :
            topicId \in PickIds(session.remainingIds), g \in Generate}

\* FactQuizGame.sendFactQuestion(session)
SendFactQuestion(session) ==
    IF ~IsDefined(session.current) THEN <<>>
    ELSE IF ~IsDefined(Get(session.current).promptText)
         THEN <<SendTgMessage("renderQuestionBuildFailed")>>
         ELSE SendQuestion(session)

\* FactQuizGame.handleLevel(chatId, messageId, callbackId, level, mode)
FactQuizHandleLevel(chatId, level, mode) ==
    /\ mode = FactQuiz
    /\ UNCHANGED sideVars
    /\ LET acts == MenuLevelSelected(level, mode)
           u == LevelUpdate(chatId, level, mode)
           topics == FactTopicsCount(level)
       IN  IF topics < MinFactTopics
           THEN /\ Respond(u, store, acts \o MenuInsufficientTerms, <<>>, <<>>)
                /\ generateCalls' = 0
                /\ UNCHANGED <<nextSessionId, nextMessageId, asked>>
           ELSE /\ nextSessionId <= sessionLimit
                /\ nextMessageId <= MaxMessages
                /\ nextSessionId' = nextSessionId + 1
                /\ LET session == CreateSession(nextSessionId, chatId, level, FactQuiz,
                                                Range(Fill(topics)))
                   IN  \E built \in BuildNextQuestion(session) :
                         /\ generateCalls' = built.calls
                         /\ IF ~IsDefined(built.next)
                            THEN /\ Respond(u, store, acts \o MenuQuestionBuildFailed,
                                            <<>>, built.metrics)
                                 /\ UNCHANGED <<nextMessageId, asked>>
                            ELSE LET updated == Get(built.next)
                                 IN  \E messageId \in SendMessageIds :
                                       /\ Respond(u,
                                            TrackSessionMessage(PutSession(store, updated),
                                                                updated, messageId),
                                            acts \o SendFactQuestion(updated),
                                            <<updated.sessionId>>
                                              \o TrackPuts(updated, messageId),
                                            built.metrics
                                              \o <<"SessionStart", "SessionStartTotal">>)
                                       /\ nextMessageId' =
                                            IF IsDefined(messageId) THEN nextMessageId + 1
                                            ELSE nextMessageId
                                       /\ asked' = [asked EXCEPT ![updated.sessionId] =
                                                      {Get(updated.current).verbId}]

----------------------------------------------------------------------------
(* Answers *)

CallbackUpdate(prefix, input) ==
    [kind |-> "callback", prefix |-> prefix, chatId |-> input.chatId,
     messageId |-> input.messageId, sessionId |-> input.sessionId,
     answerIndex |-> input.answerIndex]

\* the counters of a scored answer
AnswerMetrics(isCorrect) ==
    <<"QuestionAnswered", "QuestionAnsweredTotal",
      IF isCorrect THEN "QuestionAnsweredCorrect" ELSE "QuestionAnsweredWrong">>

\* the counters of a finished session
EndMetrics == <<"SessionEnd", "SessionEndTotal">>

\* the answer is the right one: input.answerIndex === current.correctIndex
IsCorrect(answerIndex, current) == answerIndex = current.correctIndex

\* every answer counted as a correct one
ScoredAnyAnswer(session, isCorrect) ==
    [session EXCEPT !.totalAsked = session.totalAsked + 1,
                    !.correctCount = session.correctCount + 1]

\* session.copy({totalAsked: session.totalAsked + 1,
\*               correctCount: session.correctCount + (isCorrect ? 1 : 0)})
Scored(session, isCorrect) ==
    [session EXCEPT !.totalAsked = session.totalAsked + 1,
                    !.correctCount = session.correctCount + (IF isCorrect THEN 1 ELSE 0)]

\* current.messageId.exists((id) => id !== input.messageId)
IsStale(current, messageId) ==
    IsDefined(current.messageId) /\ Get(current.messageId) # messageId

\* the next question stored without the remaining ids of its pack
AdvancedKeepingIds(updated, nextPack) ==
    [updated EXCEPT !.current = <<nextPack.question>>]

\* updated.copy({current: some(nextPack.question), remainingIds: nextPack.remaining})
Advanced(updated, nextPack) ==
    [updated EXCEPT !.current = Some(nextPack.question),
                    !.remainingIds = nextPack.remaining]

\* The end of an answer step whose next question exists: put the advanced session,
\* send the question and track its message id.
PutAndSend(u, nextSession, resultActions, questionActions, ms) ==
    /\ nextMessageId <= MaxMessages
    /\ \E messageId \in SendMessageIds :
         /\ Respond(u,
              TrackSessionMessage(PutSession(store, nextSession), nextSession, messageId),
              resultActions \o questionActions,
              <<nextSession.sessionId>> \o TrackPuts(nextSession, messageId),
              ms)
         /\ nextMessageId' = IF IsDefined(messageId) THEN nextMessageId + 1
                             ELSE nextMessageId
    /\ asked' = [asked EXCEPT ![nextSession.sessionId] =
                   @ \cup {Get(nextSession.current).verbId}]
    /\ UNCHANGED nextSessionId

\* the end of a session reported without the put
EndWithoutPut(u, updated, resultActions, ms) ==
    /\ Respond(u, store, resultActions \o <<SessionEnd(updated)>> \o MenuStart,
               <<>>, ms \o <<"SessionEnd", "SessionEndTotal">>)
    /\ UNCHANGED <<nextSessionId, nextMessageId, asked>>

\* The end of an answer step without a next question: put the scored session, then
\* the summary and the start menu.
PutAndEnd(u, updated, resultActions, ms) ==
    /\ Respond(u, PutSession(store, updated),
               resultActions \o <<SessionEnd(updated)>> \o MenuStart,
               <<updated.sessionId>>, ms \o EndMetrics)
    /\ UNCHANGED <<nextSessionId, nextMessageId, asked>>

\* an answer step that only sends a notice
Notice(u, acts, ms) ==
    /\ Respond(u, store, acts, <<>>, ms)
    /\ UNCHANGED <<nextSessionId, nextMessageId, asked>>

\* ChoiceGame.invoke(input) from the result of its getSession on: the guards, the
\* scoring, the put and the rendering
ChoiceAnswer(input, sessionOption) ==
    LET u == CallbackUpdate("s", input)
    IN  /\ generateCalls' = 0
        /\ IF ~IsDefined(sessionOption) THEN Notice(u, MissingSession, <<>>)
           ELSE LET session == Get(sessionOption) IN
           IF ~IsDefined(session.current) THEN Notice(u, MissingSession, <<>>)
           ELSE LET current == Get(session.current) IN
           IF IsStale(current, input.messageId) THEN Notice(u, InactiveQuestion, <<>>)
           ELSE LET isCorrect == IsCorrect(input.answerIndex, current)
                    updated == Scored(session, isCorrect)
                    resultActions ==
                      <<AnswerCallback,
                        AnswerResult(input.messageId, CurrentQuestionNumber(updated),
                                     TotalQuestions(updated), isCorrect)>>
                IN  /\ session.totalAsked < answerLimit
                    /\ \E nextPack \in CreateQuestion(TermsCount(session.level),
                                                      updated.remainingIds) :
                         IF ~IsDefined(nextPack)
                         THEN PutAndEnd(u, updated, resultActions, AnswerMetrics(isCorrect))
                         ELSE LET nextSession == Advanced(updated, Get(nextPack))
                              IN  PutAndSend(u, nextSession, resultActions,
                                             SendQuestion(nextSession),
                                             AnswerMetrics(isCorrect))

\* ChoiceGame.invoke(input)
ChoiceInvoke(input) ==
    /\ ChoiceAnswer(input, GetSession(store, input.sessionId))
    /\ UNCHANGED sideVars

\* TextTopicGame.invoke(input)
TextTopicInvoke(input) ==
    LET u == CallbackUpdate("t", input)
        sessionOption == GetSession(store, input.sessionId)
    IN  /\ UNCHANGED sideVars
        /\ generateCalls' = 0
        /\ IF ~IsDefined(sessionOption) THEN Notice(u, MissingSession, <<>>)
           ELSE LET session == Get(sessionOption) IN
           IF ~IsDefined(session.current) THEN Notice(u, MissingSession, <<>>)
           ELSE LET current == Get(session.current) IN
           IF IsStale(current, input.messageId) THEN Notice(u, InactiveQuestion, <<>>)
           ELSE LET isCorrect == IsCorrect(input.answerIndex, current)
                    answeredIndex == CurrentQuestionNumber(session)
                    totalQuestions == TotalQuestions(session)
                    updated == Scored(session, isCorrect)
                    resultActions ==
                      <<AnswerCallback,
                        AnswerResult(input.messageId, answeredIndex, totalQuestions,
                                     isCorrect)>>
                IN  /\ session.totalAsked < answerLimit
                    /\ \E nextPack \in CreateQuestion(TextTopicsCount(session.level),
                                                      updated.remainingIds) :
                         IF ~IsDefined(nextPack)
                         THEN PutAndEnd(u, updated, resultActions, AnswerMetrics(isCorrect))
                         ELSE LET nextSession == Advanced(updated, Get(nextPack))
                              IN  PutAndSend(u, nextSession, resultActions,
                                             SendQuestion(nextSession),
                                             AnswerMetrics(isCorrect))

\* FactQuizGame.invoke(input)
FactQuizInvoke(input) ==
    LET u == CallbackUpdate("f", input)
        sessionOption == GetSession(store, input.sessionId)
        Unanswered(acts) == Notice(u, acts, <<>>) /\ generateCalls' = 0
    IN  /\ UNCHANGED sideVars
        /\ IF ~IsDefined(sessionOption) THEN Unanswered(MissingSession)
           ELSE LET session == Get(sessionOption) IN
           IF ~IsDefined(session.current) THEN Unanswered(MissingSession)
           ELSE LET current == Get(session.current) IN
           IF IsStale(current, input.messageId) THEN Unanswered(InactiveQuestion)
           ELSE IF ~IsDefined(current.promptText) \/ Len(current.options) # 4
                   \/ input.answerIndex < 0 \/ input.answerIndex >= Len(current.options)
           THEN Unanswered(<<AnswerCallback>> \o MenuQuestionBuildFailed)
           ELSE LET isCorrect == IsCorrect(input.answerIndex, current)
                    answeredIndex == CurrentQuestionNumber(session)
                    totalQuestions == TotalQuestions(session)
                    updated == Scored(session, isCorrect)
                    resultActions ==
                      <<AnswerCallback,
                        AnswerResult(input.messageId, answeredIndex, totalQuestions,
                                     isCorrect)>>
                IN  /\ session.totalAsked < answerLimit
                    /\ \E built \in BuildNextQuestion(updated) :
                         /\ generateCalls' = built.calls
                         /\ IF ~IsDefined(built.next)
                            THEN PutAndEnd(u, updated, resultActions,
                                           AnswerMetrics(isCorrect) \o built.metrics)
                            ELSE PutAndSend(u, Get(built.next), resultActions,
                                            SendFactQuestion(Get(built.next)),
                                            AnswerMetrics(isCorrect) \o built.metrics)

\* String.trim(): leading and trailing blanks dropped
RECURSIVE TrimLeft(_)
TrimLeft(t) == IF t # <<>> /\ Head(t) = Space THEN TrimLeft(Tail(t)) ELSE t

RECURSIVE TrimRight(_)
TrimRight(t) ==
    IF t # <<>> /\ t[Len(t)] = Space THEN TrimRight(SubSeq(t, 1, Len(t) - 1)) ELSE t

\* TextGame.normalizeInput(value): value.trim().toLowerCase()
NormalizeInput(t) ==
    LET trimmed == TrimRight(TrimLeft(t))
    IN  [i \in 1..Len(trimmed) |-> [trimmed[i] EXCEPT !.upper = FALSE]]

\* TextGame.removeGreekAccents(value)
RemoveGreekAccents(t) == [i \in 1..Len(t) |-> [t[i] EXCEPT !.accent = FALSE]]

\* TextGame.hasGreekAccent(value)
HasGreekAccent(t) == \E i \in 1..Len(t) : t[i].accent

\* TextGame.matchesGreekInput(input, correct)
MatchesGreekInput(input, correct) ==
    LET normalizedInput == NormalizeInput(input)
        normalizedCorrect == NormalizeInput(correct)
    IN  IF ~HasGreekAccent(normalizedInput)
        THEN RemoveGreekAccents(normalizedInput) = RemoveGreekAccents(normalizedCorrect)
        ELSE normalizedInput = normalizedCorrect

\* the letters and texts matchesGreekInput is run on
MaxTextLen == 2

MatchChars ==
    {Space} \cup {Mark(b, a, d, u) : b \in {0, 1}, a \in BOOLEAN, d \in BOOLEAN,
                                      u \in BOOLEAN}

MatchTexts == UNION {[1..n -> MatchChars] : n \in 0..MaxTextLen}

\* the counters of TextGame.reportNoSession and of an empty answer
InvalidAnswerMetrics == <<"InvalidAnswer", "InvalidAnswerTotal">>

\* TextGame.reportNoSession(chatId)
ReportNoSession(u) ==
    Notice(u, <<SendTgMessage("renderNoActiveSession")>>, InvalidAnswerMetrics)

\* TextGame.invoke(input)
TextInvoke(input) ==
    LET u == [kind |-> "text", chatId |-> input.chatId, text |-> input.text]
    IN  /\ UNCHANGED sideVars
        /\ generateCalls' = 0
        /\ \E sessionOption \in GetSessionByUserId(store, input.chatId) :
           IF ~IsDefined(sessionOption) THEN ReportNoSession(u)
           ELSE LET session == Get(sessionOption) IN
           IF ~IsDefined(session.current) \/ session.mode # Write THEN ReportNoSession(u)
           ELSE LET current == Get(session.current)
                    answer == NormalizeInput(input.text)
                IN
           IF answer = <<>>
           THEN Notice(u, <<SendTgMessage("renderInvalidAnswer")>>, InvalidAnswerMetrics)
           ELSE LET correctAnswer == NormalizeInput(Greek(current.verbId))
                    isCorrect == MatchesGreekInput(answer, correctAnswer)
                    updated == Scored(session, isCorrect)
                    resultActions ==
                      IF IsDefined(current.messageId)
                      THEN <<AnswerResult(Get(current.messageId),
                                          CurrentQuestionNumber(updated),
                                          TotalQuestions(updated), isCorrect)>>
                      ELSE <<[type |-> "SendTgMessage", action |-> "renderAnswerResult",
                              currentQuestionIndex |-> CurrentQuestionNumber(updated),
                              totalQuestions |-> TotalQuestions(updated),
                              isCorrect |-> isCorrect]>>
                IN  /\ session.totalAsked < answerLimit
                    /\ \E nextPack \in CreateQuestion(TermsCount(session.level),
                                                      updated.remainingIds) :
                         IF ~IsDefined(nextPack)
                         THEN PutAndEnd(u, updated, resultActions, AnswerMetrics(isCorrect))
                         ELSE LET nextSession == Advanced(updated, Get(nextPack))
                              IN  PutAndSend(u, nextSession, resultActions,
                                             SendQuestion(nextSession),
                                             AnswerMetrics(isCorrect))

----------------------------------------------------------------------------
(* Restart *)

\* Quiz.clearActiveSession(userId): the possible stores after it
ClearActiveSession(st, userId) ==
    {IF IsDefined(active) THEN DeleteSession(st, Get(active).sessionId) ELSE st :
        active \in GetSessionByUserId(st, userId)}

\* Quiz.handleUpdate on /start, /menu, /end: clear the active session, send the menu
Restart(chatId) ==
    /\ \E st \in ClearActiveSession(store, chatId) :
         Respond([kind |-> "start", chatId |-> chatId], st, MenuStart, <<>>, <<>>)
    /\ UNCHANGED <<nextSessionId, nextMessageId, asked>>
    /\ generateCalls' = 0
    /\ UNCHANGED sideVars

----------------------------------------------------------------------------
(* Callback data, the menu and the routes of an update.                      *)
(*                                                                           *)
(* Callback data is text.  It is modelled by its shape: segments key:value   *)
(* joined by "|", or an answer <prefix>=<sessionId>&a=<index>.               *)

\* the modes of TrainingMode
TrainingModes == {GrRu, RuGr, Write, TextTopic, FactQuiz}

\* the modes the buttons of MenuService.modeKeyboard carry
MenuModes == {GrRu, RuGr, Write, TextTopic}

Segment(key, value) == [key |-> key, value |-> value]

\* segments joined by "|"
Segments(segs) == [form |-> "segments", segs |-> segs]

\* <prefix>=<sessionId>&a=<index>; digits says whether the index is made of digits
AnswerData(prefix, sessionId, digits) ==
    [form |-> "answer", prefix |-> prefix, sessionId |-> sessionId, digits |-> digits]

\* the value is one or more characters of [a-z0-9]
IsLevelText(value) == value \in {"a1", "b1"}

\* MetadataSerDe.parseMode(data): data.split(":")[1] when it is a training mode,
\* gr-ru otherwise.  With more than one segment the second piece runs into the
\* next segment and is no mode.
ParseMode(data) ==
    IF /\ data.form = "segments"
       /\ Len(data.segs) = 1
       /\ data.segs[1].value \in TrainingModes
    THEN data.segs[1].value
    ELSE GrRu

\* MetadataSerDe.parseLevel(data):
\* data.match(/^level:([a-z0-9]+)\|mode:(ru-gr|gr-ru|write)$/)
ParseLevel(data) ==
    IF /\ data.form = "segments"
       /\ Len(data.segs) = 2
       /\ data.segs[1].key = "level"
       /\ IsLevelText(data.segs[1].value)
       /\ data.segs[2].key = "mode"
       /\ data.segs[2].value \in {RuGr, GrRu, Write}
    THEN Some([level |-> data.segs[1].value, mode |-> data.segs[2].value])
    ELSE None

\* the buildInput of the games: /^s=([^&]+)&a=(\d+)$/, and the same for t= and f=
IsAnswer(data) ==
    data.form = "answer" /\ data.prefix \in {"s", "t", "f"} /\ data.digits

\* data.startsWith("mode:")
StartsWithMode(data) ==
    data.form = "segments" /\ data.segs # <<>> /\ data.segs[1].key = "mode"

\* every callback but a level selection or an answer taken for a mode selection
RouteCallbackModeElse(data) ==
    IF IsDefined(ParseLevel(data)) THEN "level"
    ELSE IF IsAnswer(data) THEN "answer"
    ELSE "mode"

\* Quiz.handleCallback(update) and GameFactory.forUpdate(update): where the
\* callback goes
RouteCallback(data) ==
    IF StartsWithMode(data) THEN "mode"
    ELSE IF IsDefined(ParseLevel(data)) THEN "level"
    ELSE IF IsAnswer(data) THEN "answer"
    ELSE "unknown"

\* the menu of the earlier MenuService: the level keyboard for every mode
RenderMenuPayloadLevels(payload) ==
    IF payload.action = "renderStartMenu" THEN [keyboard |-> "mode"]
    ELSE IF payload.action = "renderModeSelected" THEN [keyboard |-> "level"]
    ELSE IF payload.action = "renderCategorySelected" THEN [keyboard |-> "level"]
    ELSE [keyboard |-> "none"]

\* MenuService.renderMenuPayload(payload), by the keyboard of the message
RenderMenuPayload(payload) ==
    IF payload.action = "renderStartMenu" THEN [keyboard |-> "mode"]
    ELSE IF payload.action = "renderModeSelected"
         THEN (IF payload.mode = Write \/ payload.mode = TextTopic
               THEN [keyboard |-> "level"]
               ELSE [keyboard |-> "category"])
    ELSE IF payload.action = "renderCategorySelected" THEN [keyboard |-> "level"]
    ELSE [keyboard |-> "none"]

\* MenuService.modeSelected(chatId, messageId, callbackId, mode)
MenuModeSelected(messageId, mode) ==
    <<AnswerCallback,
      [type |-> "UpdateLastMessage", action |-> "renderModeSelected",
       messageId |-> messageId, mode |-> mode]>>

\* the unsupported-command reply sent as the start menu
MenuUnsupportedCommandAsStart == <<SendTgMessage("renderStartMenu")>>

\* MenuService.unsupportedCommand(chatId)
MenuUnsupportedCommand == <<SendTgMessage("renderUnsupportedCommand")>>

\* A text message is modelled by its shape: a word in lower case, blanks around
\* it or not, written in upper case or not.
TextMessage(word, padded, upper) == [word |-> word, padded |-> padded, upper |-> upper]

\* text.trim().toLowerCase()
NormalizeText(text) == TextMessage(text.word, FALSE, FALSE)

\* /start, /menu, /end and the stop word
RestartCommands ==
    {TextMessage(word, FALSE, FALSE) : word \in {"/start", "/menu", "/end", "stop-word"}}

\* the words that begin with "/"
SlashWords == {"/start", "/menu", "/end", "/help", "/"}

\* text.startsWith("/"): blanks in front of the word come first
StartsWithSlash(text) == ~text.padded /\ text.word \in SlashWords

\* every text that is no restart command taken for an unsupported command
RouteTextNoAnswer(text) ==
    IF NormalizeText(text) \in RestartCommands THEN "restart" ELSE "unsupported"

\* Quiz.handleUpdate(update) on a text: a restart command, a command that is not
\* supported, or an answer
RouteText(text) ==
    LET normalized == NormalizeText(text)
    IN  IF normalized \in RestartCommands THEN "restart"
        ELSE IF ~StartsWithSlash(normalized) THEN "answer"
        ELSE "unsupported"

\* the callbacks of the menu and the callbacks no route takes
MenuData ==
    {Segments(<<Segment("mode", mode)>>) : mode \in MenuModes \cup {"unknown"}}
    \cup {Segments(<<Segment("category", "verbs"), Segment("mode", GrRu)>>),
          Segments(<<Segment("mode", Write), Segment("level", "a1")>>),
          Segments(<<Segment("level", "a1")>>),
          Segments(<<Segment("level", "A1"), Segment("mode", GrRu)>>),
          Segments(<<Segment("level", "a1"), Segment("mode", GrRu)>>),
          Segments(<<>>),
          AnswerData("x", 1, TRUE),
          AnswerData("s", 1, FALSE),
          AnswerData("s", 1, TRUE)}

\* the texts that are commands or look like one
CommandTexts ==
    {TextMessage(word, padded, upper) :
        word \in {"/start", "/help", "/", "word"}, padded \in BOOLEAN, upper \in BOOLEAN}

\* Quiz.handleCallback on a callback that is a mode selection or that no route
\* takes: the mode menu, or the bare acknowledgement of the callback
HandleCallback(chatId, messageId, data) ==
    LET route == RouteCallback(data)
        u == [kind |-> "menu", chatId |-> chatId, messageId |-> messageId,
              data |-> data]
    IN  /\ route \in {"mode", "unknown"}
        /\ IF route = "mode"
           THEN Respond(u, store, MenuModeSelected(messageId, ParseMode(data)),
                        <<>>, <<>>)
           ELSE Respond(u, store, <<AnswerCallback>>, <<>>, <<>>)
        /\ UNCHANGED <<nextSessionId, nextMessageId, asked>>
        /\ generateCalls' = 0
        /\ UNCHANGED sideVars

\* Quiz.handleUpdate on a text that is a command it does not support
HandleCommand(chatId, text) ==
    /\ RouteText(text) = "unsupported"
    /\ Respond([kind |-> "command", chatId |-> chatId, text |-> text], store,
               MenuUnsupportedCommand, <<>>, <<>>)
    /\ UNCHANGED <<nextSessionId, nextMessageId, asked>>
    /\ generateCalls' = 0
    /\ UNCHANGED sideVars

----------------------------------------------------------------------------
(* The quiz: one action per inbound update *)

\* the callback prefix of the answer keyboard a session's questions carry
Prefix(mode) ==
    IF mode = TextTopic THEN "t" ELSE IF mode = FactQuiz THEN "f" ELSE "s"

\* The answer callbacks a user can send: they come from a question message sent
\* earlier, so they name a session id and a message id handed out before, and the
\* prefix is the one of the session's keyboard (a free-text session has none).
CallbackInputs(prefix) ==
    {input \in [chatId : Users, messageId : 1..(nextMessageId - 1),
                sessionId : 1..(nextSessionId - 1), answerIndex : AnswerIndices] :
        IsDefined(store[input.sessionId]) =>
            /\ Get(store[input.sessionId]).mode # Write
            /\ Prefix(Get(store[input.sessionId]).mode) = prefix}

TextInputs == [chatId : Users, text : Texts]

QuizInit ==
    /\ store = [id \in SessionIds |-> None]
    /\ nextSessionId = 1
    /\ nextMessageId = 1
    /\ asked = [id \in SessionIds |-> {}]
    /\ update = [kind |-> "none"]
    /\ actions = <<>>
    /\ puts = <<>>
    /\ metrics = <<>>
    /\ generateCalls = 0
    /\ emission = NoEmission

\* no sampler run
GenIdle ==
    /\ genTerms = 0
    /\ genStart = {}
    /\ genRemaining = {}
    /\ genPack = [called |-> FALSE, result |-> None]
    /\ genInput = {}
    /\ genCalls = 0

\* the handlers of overlapping answers
Handlers == {1, 2}

\* no invoke under way
NoCalls == [h \in Handlers |-> [pc |-> "idle"]]

\* no fact service run
FactIdle ==
    /\ factRequest = [configured |-> TRUE, transport |-> "none"]
    /\ factResult = [kind |-> "none"]

\* no handler run
HandlerIdle ==
    /\ invocation = [kind |-> "none"]
    /\ response = [kind |-> "none"]

\* no function run
ProbeIdle == probe = [fn |-> "none"]

\* no run beside the quiz
SideIdle == GenIdle /\ calls = NoCalls /\ FactIdle /\ HandlerIdle /\ ProbeIdle

Init ==
    /\ QuizInit
    /\ SideIdle
    /\ answerLimit = MaxRound
    /\ sessionLimit = MaxSessions
    /\ sinks = {"up"}

\* every question message sent so far was delivered: its response carried a message
\* id, which was tracked
Delivered ==
    \A id \in SessionIds :
        (IsDefined(store[id]) /\ IsDefined(Get(store[id]).current))
            => IsDefined(Get(Get(store[id]).current).messageId)

\* a step of a run of all the games
Round(A) == A /\ UNCHANGED limits

\* a step of a run that plays sessions to their end and beyond, and in which the
\* question messages are delivered
Played(A) == A /\ Delivered' /\ UNCHANGED limits

\* All the games, each session in its first rounds.
Next ==
    \/ \E chatId \in Users : Round(Restart(chatId))
    \/ \E chatId \in Users, level \in Levels, mode \in Modes :
         Round(HandleLevel(chatId, level, mode))
    \/ \E chatId \in Users, level \in Levels, mode \in Modes :
         Round(TextTopicHandleLevel(chatId, level, mode))
    \/ \E chatId \in Users, level \in Levels, mode \in Modes :
         Round(FactQuizHandleLevel(chatId, level, mode))
    \/ \E input \in CallbackInputs("s") : Round(ChoiceInvoke(input))
    \/ \E input \in CallbackInputs("t") : Round(TextTopicInvoke(input))
    \/ \E input \in CallbackInputs("f") : Round(FactQuizInvoke(input))
    \/ \E input \in TextInputs : Round(TextInvoke(input))

Spec == Init /\ [][Next]_vars

\* All the games up to the first question of a session: no answer is scored.
StartInit ==
    /\ QuizInit
    /\ SideIdle
    /\ answerLimit = 0
    /\ sessionLimit = MaxSessions
    /\ sinks = {"up"}

SpecStart == StartInit /\ [][Next]_vars

\* The menu and the sessions it starts: mode selections, callbacks of no route and
\* commands, before and after a level selection; no answer is scored.
MenuNext ==
    \/ \E chatId \in Users : Round(Restart(chatId))
    \/ \E chatId \in Users, level \in Levels, mode \in {GrRu, Write} :
         Round(HandleLevel(chatId, level, mode))
    \/ \E chatId \in Users, data \in MenuData :
         Round(HandleCallback(chatId, 1, data))
    \/ \E chatId \in Users, text \in CommandTexts : Round(HandleCommand(chatId, text))

SpecMenu == StartInit /\ [][MenuNext]_vars

\* The chat of update.message, as TelegramUpdateMessage.fromJson finds it: none when
\* the update has no message beside its callback query
MessageChats == {None} \cup {Some(chatId) : chatId \in Users}

\* the message nested in the callback query has a chat and a message id, or not
QueryMessages == BOOLEAN

\* Quiz.handleUpdate(update) on an update that carries a callback query: the
\* callback is handled inside the mapPromise of the chat id of update.message, and
\* handleCallback maps over the chat and the message id of the query's message
QuizHandleUpdate(messageChat, queryMessage, HandledCallback) ==
    IF IsDefined(messageChat) /\ queryMessage
    THEN HandledCallback
    ELSE /\ Respond([kind |-> "ignored", messageChat |-> messageChat,
                     queryMessage |-> queryMessage], store, <<>>, <<>>, <<>>)
         /\ UNCHANGED <<nextSessionId, nextMessageId, asked>>
         /\ generateCalls' = 0
         /\ UNCHANGED sideVars

\* Updates that carry a callback query, of every branch: the menu and the
\* callbacks of no route, the level selections and the answers of the choice game
\* and of the fact quiz, each session in its first rounds.
UpdateNext ==
    \/ \E messageChat \in MessageChats, queryMessage \in QueryMessages,
          chatId \in Users, data \in MenuData :
         Round(QuizHandleUpdate(messageChat, queryMessage, HandleCallback(chatId, 1, data)))
    \/ \E messageChat \in MessageChats, queryMessage \in QueryMessages,
          chatId \in Users, level \in Levels :
         Round(QuizHandleUpdate(messageChat, queryMessage, HandleLevel(chatId, level, GrRu)))
    \/ \E messageChat \in MessageChats, queryMessage \in QueryMessages,
          chatId \in Users, level \in Levels :
         Round(QuizHandleUpdate(messageChat, queryMessage,
                            FactQuizHandleLevel(chatId, level, FactQuiz)))
    \/ \E messageChat \in MessageChats, queryMessage \in QueryMessages,
          input \in CallbackInputs("s") :
         Round(QuizHandleUpdate(messageChat, queryMessage, ChoiceInvoke(input)))
    \/ \E messageChat \in MessageChats, queryMessage \in QueryMessages,
          input \in CallbackInputs("f") :
         Round(QuizHandleUpdate(messageChat, queryMessage, FactQuizInvoke(input)))

UpdateInit ==
    /\ QuizInit
    /\ SideIdle
    /\ answerLimit = MaxRound
    /\ sessionLimit = MaxSessions
    /\ sinks = {"up"}

SpecUpdate == UpdateInit /\ [][UpdateNext]_vars

\* The choice game, the text game and the fact quiz, each session in its first
\* rounds, the metrics sink up or down during each update.
SinkNext ==
    \/ \E chatId \in Users : Round(Restart(chatId))
    \/ \E chatId \in Users, level \in Levels, mode \in {GrRu, Write} :
         Round(HandleLevel(chatId, level, mode))
    \/ \E chatId \in Users, level \in Levels :
         Round(FactQuizHandleLevel(chatId, level, FactQuiz))
    \/ \E input \in CallbackInputs("s") : Round(ChoiceInvoke(input))
    \/ \E input \in CallbackInputs("f") : Round(FactQuizInvoke(input))
    \/ \E input \in TextInputs : Round(TextInvoke(input))

SinkInit ==
    /\ QuizInit
    /\ SideIdle
    /\ answerLimit = MaxRound
    /\ sessionLimit = MaxSessions
    /\ sinks = {"up", "down"}

SpecSink == SinkInit /\ [][SinkNext]_vars

\* The choice game, sessions started one after the other by the same owner, none of
\* them played.
OwnerNext ==
    \/ \E chatId \in Users : Played(Restart(chatId))
    \/ \E chatId \in Users, level \in Levels : Played(HandleLevel(chatId, level, GrRu))
    \/ \E input \in CallbackInputs("s") : Played(ChoiceInvoke(input))

OwnerInit ==
    /\ QuizInit
    /\ SideIdle
    /\ answerLimit = 0
    /\ sessionLimit = MaxOwnerSessions
    /\ sinks = {"up"}

SpecOwner == OwnerInit /\ [][OwnerNext]_vars

\* The choice game and the fact quiz, sessions played to their end and beyond.
PlayNext ==
    \/ \E chatId \in Users : Played(Restart(chatId))
    \/ \E chatId \in Users, level \in Levels : Played(HandleLevel(chatId, level, GrRu))
    \/ \E chatId \in Users, level \in Levels :
         Played(FactQuizHandleLevel(chatId, level, FactQuiz))
    \/ \E input \in CallbackInputs("s") : Played(ChoiceInvoke(input))
    \/ \E input \in CallbackInputs("f") : Played(FactQuizInvoke(input))

PlayInit ==
    /\ QuizInit
    /\ SideIdle
    /\ answerLimit = MaxAsked
    /\ sessionLimit = MaxSessions
    /\ sinks = {"up"}

SpecPlay == PlayInit /\ [][PlayNext]_vars

----------------------------------------------------------------------------
(* Overlapping answers: ChoiceGame.invoke awaits getSession, then the sheet and *)
(* the counters, and only then putSession, so two invocations can both read    *)
(* the session before either writes it.                                         *)

\* The answers two overlapping callbacks carry: taps on the message of the
\* outstanding question.  Overlapping answers are explored on the last question of
\* a session (no remaining ids, one answer short of totalCount), where the put that
\* follows draws no question.
RaceInputs ==
    {input \in CallbackInputs("s") :
        /\ IsDefined(store[input.sessionId])
        /\ Get(store[input.sessionId]).remainingIds = {}
        /\ Get(store[input.sessionId]).totalAsked + 1 =
             Get(store[input.sessionId]).totalCount
        /\ Get(Get(store[input.sessionId]).current).messageId = Some(input.messageId)}

\* ChoiceGame.invoke up to the result of getSession
ChoiceRead(h, input) ==
    /\ calls[h].pc = "idle"
    /\ calls' = [calls EXCEPT ![h] =
                   [pc |-> "read", input |-> input,
                    sessionOption |-> GetSession(store, input.sessionId)]]
    /\ UNCHANGED <<quizVars, limits, genVars, factVars, handlerVars, probe>>

\* ChoiceGame.invoke from the result of getSession on
ChoiceWrite(h) ==
    /\ calls[h].pc = "read"
    /\ ChoiceAnswer(calls[h].input, calls[h].sessionOption)
    /\ calls' = [calls EXCEPT ![h] = [pc |-> "done"]]
    /\ UNCHANGED <<limits, genVars, factVars, handlerVars, probe>>

\* a serial update, handled before the overlapping answers arrive
Serial(A) == calls = NoCalls /\ Played(A)

\* The choice game: sessions played by serial updates, then two answers that
\* overlap.
RaceNext ==
    \/ \E chatId \in Users, level \in Levels : Serial(HandleLevel(chatId, level, GrRu))
    \/ \E input \in CallbackInputs("s") : Serial(ChoiceInvoke(input))
    \/ \E h \in Handlers, input \in RaceInputs : ChoiceRead(h, input)
    \/ \E h \in Handlers : ChoiceWrite(h)

RaceInit ==
    /\ QuizInit
    /\ SideIdle
    /\ answerLimit = MaxAsked
    /\ sessionLimit = MaxSessions
    /\ sinks = {"up"}

SpecRace == RaceInit /\ [][RaceNext]_vars

----------------------------------------------------------------------------
(* The window of a next question: ChoiceGame.invoke puts the session with the  *)
(* next question and returns its actions; the question is sent and its message *)
(* id tracked only when the actions are rendered.  An answer that arrives in   *)
(* between is handled by another invocation.                                   *)

\* ChoiceGame.invoke(input) up to its return with a next question: the session is
\* put with the question, the question is not sent yet
ChoiceInvoked(h, input) ==
    /\ calls[h].pc = "idle"
    /\ ChoiceAnswer(input, GetSession(store, input.sessionId))
    /\ \E i \in 1..Len(actions') :
          "action" \in DOMAIN actions'[i] /\ actions'[i].action = "renderQuestion"
    /\ nextMessageId' = nextMessageId
    /\ calls' = [calls EXCEPT ![h] =
                   [pc |-> "render", trackSession |-> Get(store'[input.sessionId])]]
    /\ UNCHANGED <<limits, genVars, factVars, handlerVars, probe>>

\* The question of a returned invoke is rendered: the message is sent and
\* BaseGame.trackSessionMessage puts the session of the payload with the message id.
RenderQuestion(h) ==
    /\ calls[h].pc = "render"
    /\ nextMessageId <= MaxMessages
    /\ Respond([kind |-> "render", sessionId |-> calls[h].trackSession.sessionId],
               TrackSessionMessage(store, calls[h].trackSession, Some(nextMessageId)),
               <<>>, TrackPuts(calls[h].trackSession, Some(nextMessageId)), <<>>)
    /\ nextMessageId' = nextMessageId + 1
    /\ generateCalls' = 0
    /\ calls' = [calls EXCEPT ![h] = [pc |-> "idle"]]
    /\ UNCHANGED <<nextSessionId, asked>>
    /\ UNCHANGED <<limits, genVars, factVars, handlerVars, probe>>

\* an update handled whole, the question it sends delivered
Whole(A) ==
    /\ A
    /\ (\E i \in 1..Len(actions') :
          "action" \in DOMAIN actions'[i] /\ actions'[i].action = "renderQuestion")
       => nextMessageId' = nextMessageId + 1
    /\ UNCHANGED limits

\* The choice game: level selections, answers whose next question is rendered in
\* a later step, and answers handled whole while a question waits to be rendered.
WindowNext ==
    \/ \E chatId \in Users : Whole(HandleLevel(chatId, "a1", GrRu))
    \/ \E input \in CallbackInputs("s") :
         calls[1].pc = "render" /\ Whole(ChoiceInvoke(input))
    \/ \E input \in CallbackInputs("s") : ChoiceInvoked(1, input)
    \/ RenderQuestion(1)

WindowInit ==
    /\ QuizInit
    /\ SideIdle
    /\ answerLimit = MaxWindowAsked
    /\ sessionLimit = MaxSessions
    /\ sinks = {"up"}

SpecWindow == WindowInit /\ [][WindowNext]_vars

\* The choice game with a restart between the steps of an answer: an answer whose
\* next question is rendered in a later step or an answer that reads the session
\* and writes it in a later step, one of them under way at a time, and the restart
\* command.
\* the taps on the message of the current question of a stored session
CurrentTaps ==
    {input \in CallbackInputs("s") :
        /\ IsDefined(store[input.sessionId])
        /\ IsDefined(Get(store[input.sessionId]).current)
        /\ Get(Get(store[input.sessionId]).current).messageId = Some(input.messageId)}

DeleteNext ==
    \/ \E chatId \in Users : Whole(HandleLevel(chatId, "a1", GrRu))
    \/ \E chatId \in Users : Round(Restart(chatId))
    \/ \E input \in CurrentTaps : calls[2].pc = "idle" /\ ChoiceInvoked(1, input)
    \/ RenderQuestion(1)
    \/ \E input \in CurrentTaps : calls[1].pc = "idle" /\ ChoiceRead(2, input)
    \/ ChoiceWrite(2)

DeleteInit ==
    /\ QuizInit
    /\ SideIdle
    /\ answerLimit = MaxRound
    /\ sessionLimit = MaxSessions
    /\ sinks = {"up"}

SpecDelete == DeleteInit /\ [][DeleteNext]_vars

----------------------------------------------------------------------------
(* FactQuestionService (src/fact-question-service.ts).                         *)
(*                                                                           *)
(* A string is a sequence of characters.  A JSON value is a record with its  *)
(* type in t: "missing" (the key is absent, undefined in the code), "null",  *)
(* "str" (s the characters), "num" (n a JS number), "bool" (b a boolean),    *)
(* "arr" (items).  A JS number is [k |-> "int", v |-> n],              *)
(* [k |-> "frac"] (not an integer) or [k |-> "nan"].  The content of the     *)
(* provider's message is a sequence of tokens: blanks, code fences, free     *)
(* text, braces and, between braces, the text of an object.                  *)

Blank == " "

Digits == <<"0", "1", "2", "3", "4", "5", "6", "7", "8", "9">>

IsDigit(c) == \E d \in 1..10 : Digits[d] = c

DigitValue(c) == (CHOOSE d \in 1..10 : Digits[d] = c) - 1

\* String.trim() on characters
Trim(t) ==
    LET inked == {i \in 1..Len(t) : t[i] # Blank}
    IN  IF inked = {} THEN <<>>
        ELSE SubSeq(t, CHOOSE i \in inked : \A j \in inked : i <= j,
                       CHOOSE i \in inked : \A j \in inked : j <= i)

\* the text of n words, one blank between two words
Words(n) ==
    IF n <= 0 THEN <<>> ELSE [i \in 1..(2 * n - 1) |-> IF i % 2 = 1 THEN "a" ELSE Blank]

JsInt(n) == [k |-> "int", v |-> n]

JsFrac == [k |-> "frac"]

JsNaN == [k |-> "nan"]

\* the value of a string of digits
RECURSIVE DigitsValue(_, _)
DigitsValue(t, acc) ==
    IF t = <<>> THEN acc ELSE DigitsValue(Tail(t), 10 * acc + DigitValue(Head(t)))

\* Number(value) on a string: blanks around are dropped, the empty string is 0,
\* digits are their value, anything else is NaN
StringToNumber(t) ==
    LET trimmed == Trim(t)
    IN  IF trimmed = <<>> THEN JsInt(0)
        ELSE IF \A i \in 1..Len(trimmed) : IsDigit(trimmed[i])
             THEN JsInt(DigitsValue(trimmed, 0))
             ELSE JsNaN

\* String(value) on a JS number of one digit
NumberToString(n) ==
    IF n.k = "nan" THEN <<"N", "a", "N">>
    ELSE IF n.k = "frac" THEN <<"1", ".", "5">>
    ELSE IF n.v < 0 THEN <<"-", Digits[1 - n.v]>>
    ELSE <<Digits[n.v + 1]>>

\* String(value)
StringOf(value) ==
    IF value.t = "str" THEN value.s
    ELSE IF value.t = "num" THEN NumberToString(value.n)
    ELSE IF value.t = "bool"
         THEN (IF value.b THEN <<"t", "r", "u", "e">> ELSE <<"f", "a", "l", "s", "e">>)
    ELSE IF value.t = "null" THEN <<"n", "u", "l", "l">>
    ELSE <<"u", "n", "d", "e", "f", "i", "n", "e", "d">>

\* String(value ?? "")
ToStringOrEmpty(value) ==
    IF value.t \in {"missing", "null"} THEN <<>> ELSE StringOf(value)

\* Number(value)
ToNumber(value) ==
    IF value.t = "num" THEN value.n
    ELSE IF value.t = "str" THEN StringToNumber(value.s)
    ELSE IF value.t = "bool" THEN JsInt(IF value.b THEN 1 ELSE 0)
    ELSE IF value.t = "null" THEN JsInt(0)
    ELSE JsNaN

\* the words a fact may have
MaxFactWords == 80

\* the number of options of a fact question
OptionCount == 4

\* the largest correctIndex
MaxCorrectIndex == 3

\* FactQuestionService.countWords(value): value.trim().split(/\s+/).filter(Boolean)
\* the words are the runs of characters that are not blank
CountWords(value) ==
    LET t == Trim(value)
    IN  Cardinality({i \in 1..Len(t) : t[i] # Blank /\ (i = 1 \/ t[i - 1] = Blank)})

\* the tokens of a content
Token(k) == [k |-> k]

ObjectText(valid, object) == [k |-> "object", valid |-> valid, object |-> object]

\* String.trim() on tokens
RECURSIVE TrimTokensStart(_)
TrimTokensStart(c) ==
    IF c # <<>> /\ Head(c).k = "blank" THEN TrimTokensStart(Tail(c)) ELSE c

RECURSIVE TrimTokensEnd(_)
TrimTokensEnd(c) ==
    IF c # <<>> /\ c[Len(c)].k = "blank"
    THEN TrimTokensEnd(SubSeq(c, 1, Len(c) - 1)) ELSE c

TrimTokens(c) == TrimTokensEnd(TrimTokensStart(c))

\* content.replace(/```json\s*/gi, "").replace(/```/g, "")
RECURSIVE WithoutFences(_)
WithoutFences(c) ==
    IF c = <<>> THEN <<>>
    ELSE IF Head(c).k = "fence" THEN WithoutFences(Tail(c))
         ELSE <<Head(c)>> \o WithoutFences(Tail(c))

\* String.indexOf("{"), 0-based, -1 when absent
IndexOfToken(c, k) ==
    IF \E i \in 1..Len(c) : c[i].k = k
    THEN (CHOOSE i \in 1..Len(c) : c[i].k = k /\ \A j \in 1..(i - 1) : c[j].k # k) - 1
    ELSE -1

\* String.lastIndexOf("}"), 0-based, -1 when absent
LastIndexOfToken(c, k) ==
    IF \E i \in 1..Len(c) : c[i].k = k
    THEN (CHOOSE i \in 1..Len(c) :
            c[i].k = k /\ \A j \in (i + 1)..Len(c) : c[j].k # k) - 1
    ELSE -1

\* JSON.parse(text) of a text that starts with a brace: Some(object), None when it
\* throws
JsonParse(text) ==
    IF /\ Len(text) = 3
       /\ text[1].k = "open"
       /\ text[2].k = "object"
       /\ text[3].k = "close"
       /\ text[2].valid
    THEN Some(text[2].object)
    ELSE None

\* a failure of generate: the promise is rejected, the caller catches it
Failure == [kind |-> "failure"]

\* an exception thrown in the response's "end" listener: no promise is rejected, no
\* caller catches it
Uncaught == [kind |-> "uncaught"]

\* FactQuestionService.requestCompletion(payload) for a response of the provider:
\* the content (trimmed), a rejection (request error, timeout, status other than
\* 200, empty content), or the exception of JSON.parse(data) on a body that is not
\* JSON, thrown in the listener
RequestCompletion(received) ==
    IF received.transport \in {"error", "timeout", "status"} THEN Failure
    ELSE IF received.transport = "garbled" THEN Uncaught
    ELSE IF received.content = <<>> THEN Failure
    ELSE [kind |-> "content", content |-> TrimTokens(received.content)]

\* FactQuestionService.parseQuestion(content): Some(parsed), None when it throws
ParseQuestion(content) ==
    LET cleaned == TrimTokens(WithoutFences(content))
        start == IndexOfToken(cleaned, "open")
        end == LastIndexOfToken(cleaned, "close")
    IN  IF start < 0 \/ end < 0 THEN None
        ELSE JsonParse(SubSeq(cleaned, start + 1, end + 1))

\* FactQuestionService.normalizeQuestion(question)
NormalizeQuestion(question) ==
    [fact |-> Trim(ToStringOrEmpty(question.fact)),
     question |-> Trim(ToStringOrEmpty(question.question)),
     options |-> IF question.options.t = "arr"
                 THEN [i \in 1..Len(question.options.items) |->
                          Trim(StringOf(question.options.items[i]))]
                 ELSE <<>>,
     correctIndex |-> ToNumber(question.correctIndex)]

\* FactQuestionService.validateQuestion(question): TRUE when it does not throw
ValidateQuestion(question) ==
    /\ ~(question.fact = <<>> \/ question.question = <<>>
         \/ Len(question.options) # OptionCount)
    /\ ~(question.correctIndex.k # "int" \/ question.correctIndex.v < 0
         \/ question.correctIndex.v > MaxCorrectIndex)
    /\ ~(CountWords(question.fact) > MaxFactWords)
    /\ ~(\E i \in 1..Len(question.options) : question.options[i] = <<>>)

\* FactQuestionService.ensureConfigured(): TRUE when it does not throw
EnsureConfigured(configured) == configured

\* FactQuestionService.generate(level, topic, recentFacts) for a configuration and
\* a response of the provider
GenerateFrom(request) ==
    IF ~EnsureConfigured(request.configured) THEN Failure
    ELSE LET completion == RequestCompletion(request)
         IN  IF completion.kind # "content" THEN completion
             ELSE LET parsed == ParseQuestion(completion.content)
                  IN  IF ~IsDefined(parsed) THEN Failure
                      ELSE LET normalized == NormalizeQuestion(Get(parsed))
                           IN  IF ~ValidateQuestion(normalized) THEN Failure
                               ELSE [kind |-> "question", question |-> normalized]

\* JSON values the provider can put in its object
Missing == [t |-> "missing"]

Null == [t |-> "null"]

Str(s) == [t |-> "str", s |-> s]

Num(n) == [t |-> "num", n |-> n]

Bool(b) == [t |-> "bool", b |-> b]

Arr(items) == [t |-> "arr", items |-> items]

FactValues ==
    {Missing, Null, Str(<<>>), Str(<<Blank>>), Str(Words(1)), Str(<<Blank>> \o Words(2)),
     Str(Words(MaxFactWords)), Str(Words(MaxFactWords + 1)), Num(JsInt(7))}

QuestionValues == {Missing, Str(<<>>), Str(Words(1))}

OptionValues ==
    {Missing, Str(Words(1)),
     Arr(<<Str(Words(1)), Str(Words(1)), Str(Words(1))>>),
     Arr(<<Str(Words(1)), Str(Words(2)), Str(Words(1)), Str(Words(1))>>),
     Arr(<<Str(Words(1)), Str(<<>>), Str(Words(1)), Str(Words(1))>>),
     Arr(<<Str(Words(1)), Str(Words(1)), Str(<<Blank>>), Str(Words(1))>>),
     Arr(<<Str(Words(1)), Null, Str(Words(1)), Str(Words(1))>>),
     Arr(<<Num(JsInt(1)), Num(JsInt(2)), Num(JsInt(3)), Bool(TRUE)>>),
     Arr(<<Str(Words(1)), Str(Words(1)), Str(Words(1)), Str(Words(1)), Str(Words(1))>>)}

CorrectIndexValues ==
    {Missing, Null, Num(JsInt(-1)), Num(JsInt(0)), Num(JsInt(3)), Num(JsInt(4)),
     Num(JsFrac), Str(<<"2">>), Str(<<"a">>), Bool(TRUE)}

\* the objects the provider can send
FactObjects ==
    [fact : FactValues, question : QuestionValues, options : OptionValues,
     correctIndex : CorrectIndexValues]

\* a content: the text of an object, in code fences or not, with free text around it
\* or not, with blanks around it or not
Content(fenced, prose, padded, text) ==
    (IF padded THEN <<Token("blank")>> ELSE <<>>)
    \o (IF fenced THEN <<Token("fence")>> ELSE <<>>)
    \o (IF prose THEN <<Token("text")>> ELSE <<>>)
    \o text
    \o (IF prose THEN <<Token("text")>> ELSE <<>>)
    \o (IF fenced THEN <<Token("fence")>> ELSE <<>>)
    \o (IF padded THEN <<Token("blank")>> ELSE <<>>)

\* the contents the provider can send: objects, an object text that is not JSON,
\* text without braces, nothing
FactContents ==
    {Content(fenced, prose, padded,
             <<Token("open"), ObjectText(TRUE, object), Token("close")>>) :
        fenced \in BOOLEAN, prose \in BOOLEAN, padded \in BOOLEAN, object \in FactObjects}
    \cup {<<Token("open"), ObjectText(FALSE, [fact |-> Missing]), Token("close")>>,
          <<Token("text")>>, <<>>}

\* the configurations and responses generate can meet
FactRequests ==
    {[configured |-> configured, transport |-> "content", content |-> content] :
        configured \in BOOLEAN, content \in FactContents}
    \cup {[configured |-> TRUE, transport |-> transport] :
            transport \in {"error", "timeout", "status", "garbled"}}

FactInit ==
    /\ QuizInit
    /\ GenIdle
    /\ calls = NoCalls
    /\ answerLimit = 0
    /\ sessionLimit = 0
    /\ sinks = {"up"}
    /\ factRequest \in FactRequests
    /\ factResult = [kind |-> "none"]
    /\ HandlerIdle
    /\ ProbeIdle

\* one call of generate
FactGenerate ==
    /\ factResult.kind = "none"
    /\ factResult' = GenerateFrom(factRequest)
    /\ UNCHANGED <<factRequest, quizVars, limits, genVars, calls, handlerVars, probe>>

FactNext == FactGenerate

SpecFact == FactInit /\ [][FactNext]_vars

----------------------------------------------------------------------------
(* The Lambda handler (src/index.ts) and TelegramService.parseUpdate           *)
(* (src/telegram.ts).                                                         *)
(*                                                                           *)
(* The body of an event is absent, the empty string, or a text: a payload    *)
(* written plainly or in base64.  A payload is what the text says once       *)
(* decoded: something that is not JSON, JSON that is no update object, or an *)
(* update of one of the kinds the quiz tells apart.                          *)

\* the updates by what the quiz does with them; "fact-level" and "fact-answer"
\* are the two that make the fact quiz build a question
UpdateKinds ==
    {"empty", "start", "text", "command", "level", "answer", "fact-level", "fact-answer"}

\* the update of fromJson({})
EmptyUpdate == [kind |-> "empty"]

Payloads == {"garbage", "null"} \cup UpdateKinds

Bodies ==
    {[kind |-> "absent"], [kind |-> "blank"]}
    \cup {[kind |-> "text", encoding |-> encoding, payload |-> payload] :
             encoding \in {"plain", "base64"}, payload \in Payloads}

Events == [body : Bodies, isBase64Encoded : BOOLEAN]

\* Buffer.from(body, "base64").toString("utf-8"): a base64 text gives what it
\* encodes, any other text gives bytes that are no JSON
Base64Decode(body) ==
    IF body.encoding = "base64"
    THEN [kind |-> "text", encoding |-> "plain", payload |-> body.payload]
    ELSE [kind |-> "text", encoding |-> "plain", payload |-> "garbage"]

\* TelegramUpdateMessage.fromJson(JSON.parse(rawBody)): Some(update), None when
\* either throws
ParseRawBody(rawBody) ==
    IF rawBody.encoding = "base64" \/ rawBody.payload \in {"garbage", "null"}
    THEN None
    ELSE Some([kind |-> rawBody.payload])

\* TelegramService.parseUpdate(event)
ParseUpdate(event) ==
    IF event.body.kind \in {"absent", "blank"} THEN EmptyUpdate
    ELSE LET rawBody == IF event.isBase64Encoded THEN Base64Decode(event.body)
                        ELSE event.body
             parsed == ParseRawBody(rawBody)
         IN  IF IsDefined(parsed) THEN Get(parsed) ELSE EmptyUpdate

\* what the provider answers when the fact quiz asks it for a question
ProviderResponses ==
    {[configured |-> TRUE, transport |-> transport] :
        transport \in {"error", "timeout", "status", "garbled"}}
    \cup {[configured |-> TRUE, transport |-> "content",
           content |-> <<Token("open"),
                         ObjectText(TRUE, [fact |-> Str(Words(1)),
                                           question |-> Str(Words(1)),
                                           options |-> Arr(<<Str(Words(1)), Str(Words(2)),
                                                             Str(Words(1)), Str(Words(1))>>),
                                           correctIndex |-> Num(JsInt(0))]),
                         Token("close")>>],
          [configured |-> TRUE, transport |-> "content", content |-> <<Token("text")>>]}

\* Quiz.handleUpdate(update), by how it ends: "returned", "threw" (a rejection
\* the handler awaits) or "uncaught" (an exception outside the awaited chain).
\* An update without a chat does nothing.  Any other update calls the store,
\* Telegram or the sheets, and a rejected call is awaited and thrown on.  The two
\* fact updates go on to FactQuizGame.buildNextQuestion, which catches a failure
\* of generate; an exception generate does not turn into a failure passes it by.
HandleUpdate(parsed, collaborators, provider) ==
    IF parsed.kind = "empty" THEN "returned"
    ELSE IF collaborators = "reject" THEN "threw"
    ELSE IF parsed.kind \in {"fact-level", "fact-answer"}
            /\ GenerateFrom(provider).kind = "uncaught"
         THEN "uncaught"
         ELSE "returned"

\* the acknowledgement of the handler
Acknowledgement(exception, observations) ==
    [kind |-> "returned", statusCode |-> 200, body |-> "ok",
     exception |-> exception, observations |-> observations]

\* handler(event): the try block returns the acknowledgement; the catch block
\* records Error and ErrorTotal and returns it too; an exception outside the
\* awaited chain reaches neither
HandlerOutcome(event, collaborators, provider) ==
    LET outcome == HandleUpdate(ParseUpdate(event), collaborators, provider)
    IN  IF outcome = "returned" THEN Acknowledgement(FALSE, <<>>)
        ELSE IF outcome = "threw" THEN Acknowledgement(TRUE, <<"Error", "ErrorTotal">>)
        ELSE [kind |-> "uncaught", exception |-> TRUE, observations |-> <<>>]

HandlerInit ==
    /\ QuizInit
    /\ GenIdle
    /\ calls = NoCalls
    /\ FactIdle
    /\ ProbeIdle
    /\ answerLimit = 0
    /\ sessionLimit = 0
    /\ sinks = {"up"}
    /\ \E event \in Events, collaborators \in {"ok", "reject"},
          provider \in ProviderResponses :
            invocation = [kind |-> "event", event |-> event,
                          collaborators |-> collaborators, provider |-> provider]
    /\ response = [kind |-> "none"]

\* one invocation of the handler
Handler ==
    /\ invocation.kind = "event"
    /\ response.kind = "none"
    /\ response' = HandlerOutcome(invocation.event, invocation.collaborators,
                                  invocation.provider)
    /\ UNCHANGED <<invocation, quizVars, limits, genVars, calls, factVars, probe>>

HandlerNext == Handler

SpecHandler == HandlerInit /\ [][HandlerNext]_vars

----------------------------------------------------------------------------
(* The pure functions on their own: the arguments are drawn from bounded sets, *)
(* one step applies the function.                                            *)

MatchInit ==
    /\ QuizInit
    /\ GenIdle
    /\ calls = NoCalls
    /\ FactIdle
    /\ HandlerIdle
    /\ answerLimit = 0
    /\ sessionLimit = 0
    /\ sinks = {"up"}
    /\ \E input \in MatchTexts, correct \in MatchTexts :
          probe = [fn |-> "matchesGreekInput", input |-> input, correct |-> correct,
                   done |-> FALSE, result |-> FALSE]

\* one call matchesGreekInput(input, correct)
MatchApply ==
    /\ probe.fn = "matchesGreekInput"
    /\ ~probe.done
    /\ probe' = [probe EXCEPT !.done = TRUE,
                              !.result = MatchesGreekInput(probe.input, probe.correct)]
    /\ UNCHANGED <<quizVars, limits, genVars, calls, factVars, handlerVars>>

MatchNext == MatchApply

SpecMatch == MatchInit /\ [][MatchNext]_vars

\* the longest callback data, in segments
MaxSegments == 3

\* the generations of a fact made on top of a list of recent facts
MaxGenerations == 3

\* the segments of callback data: a level in lower case, in upper case or empty,
\* the five modes and a mode that is none, a category
DataSegments ==
    {Segment("level", value) : value \in {"a1", "A1", ""}}
    \cup {Segment("mode", value) : value \in TrainingModes \cup {"unknown"}}
    \cup {Segment("category", "verbs")}

\* callback data of up to MaxSegments segments, and answers
ParseData ==
    {Segments(segs) : segs \in UNION {[1..n -> DataSegments] : n \in 0..MaxSegments}}
    \cup {AnswerData("s", 1, TRUE)}

ParseInit ==
    /\ QuizInit
    /\ GenIdle
    /\ calls = NoCalls
    /\ FactIdle
    /\ HandlerIdle
    /\ answerLimit = 0
    /\ sessionLimit = 0
    /\ sinks = {"up"}
    /\ \E data \in ParseData :
          probe = [fn |-> "parseLevel", data |-> data, done |-> FALSE, result |-> None]

\* one call MetadataSerDe.parseLevel(data)
ParseApply ==
    /\ probe.fn = "parseLevel"
    /\ ~probe.done
    /\ probe' = [probe EXCEPT !.done = TRUE, !.result = ParseLevel(probe.data)]
    /\ UNCHANGED <<quizVars, limits, genVars, calls, factVars, handlerVars>>

ParseNext == ParseApply

SpecParse == ParseInit /\ [][ParseNext]_vars

\* Session and SessionQuestion to the storage record and back.  The record is an
\* object of JSON values; a property that is undefined is Missing.  The numbers of
\* a session are JS numbers here (JsInt), its texts are sequences of characters.

Obj(fields) == [t |-> "obj", fields |-> fields]

\* value ?? fallback
OrElse(value, fallback) == IF value.t \in {"missing", "null"} THEN fallback ELSE value

\* asObject(value).<key>: undefined when the value is no object
Property(value, key) ==
    IF value.t = "obj" /\ key \in DOMAIN value.fields THEN value.fields[key] ELSE Missing

\* Array.isArray(value) ? value.map((v) => Number(v)) : []
NumbersOf(value) ==
    IF value.t = "arr" THEN [i \in 1..Len(value.items) |-> ToNumber(value.items[i])]
    ELSE <<>>

\* option(value).map((v) => Number(v))
OptionalNumber(value) ==
    IF value.t \in {"missing", "null"} THEN None ELSE Some(ToNumber(value))

\* option(value).map((v) => String(v))
OptionalString(value) ==
    IF value.t \in {"missing", "null"} THEN None ELSE Some(StringOf(value))

\* SessionQuestion.item
SessionQuestionItem(question) ==
    Obj([verbId |-> Num(question.verbId),
         options |-> Arr([i \in 1..Len(question.options) |-> Num(question.options[i])]),
         correctIndex |-> Num(question.correctIndex),
         messageId |-> IF IsDefined(question.messageId)
                       THEN Num(Get(question.messageId)) ELSE Missing,
         promptText |-> IF IsDefined(question.promptText)
                        THEN Str(Get(question.promptText)) ELSE Missing,
         questionText |-> IF IsDefined(question.questionText)
                          THEN Str(Get(question.questionText)) ELSE Missing,
         answerOptions |-> IF IsDefined(question.answerOptions)
                           THEN Arr([i \in 1..Len(Get(question.answerOptions)) |->
                                        Str(Get(question.answerOptions)[i])])
                           ELSE Missing])

\* SessionQuestion.fromJson(payload)
SessionQuestionFromJson(payload) ==
    [verbId |-> ToNumber(OrElse(Property(payload, "verbId"), Num(JsInt(0)))),
     options |-> NumbersOf(Property(payload, "options")),
     correctIndex |-> ToNumber(OrElse(Property(payload, "correctIndex"), Num(JsInt(0)))),
     messageId |-> OptionalNumber(Property(payload, "messageId")),
     promptText |-> OptionalString(Property(payload, "promptText")),
     questionText |-> OptionalString(Property(payload, "questionText")),
     answerOptions |->
         LET raw == Property(payload, "answerOptions")
         IN  IF raw.t = "arr"
             THEN Some([i \in 1..Len(raw.items) |-> StringOf(raw.items[i])])
             ELSE None]

\* Session.item
SessionItem(session) ==
    Obj([sessionId |-> Str(session.sessionId),
         userId |-> Num(session.userId),
         level |-> Str(session.level),
         mode |-> Str(session.mode),
         remainingIds |-> Arr([i \in 1..Len(session.remainingIds) |->
                                  Num(session.remainingIds[i])]),
         totalAsked |-> Num(session.totalAsked),
         correctCount |-> Num(session.correctCount),
         totalCount |-> Num(session.totalCount),
         current |-> IF IsDefined(session.current)
                     THEN SessionQuestionItem(Get(session.current)) ELSE Missing,
         expiresAt |-> Num(session.expiresAt),
         updatedAt |-> Num(session.updatedAt)])

\* Session.fromJson(payload)
SessionFromJson(payload) ==
    LET remainingIds == NumbersOf(Property(payload, "remainingIds"))
        current == Property(payload, "current")
    IN  [sessionId |-> ToStringOrEmpty(Property(payload, "sessionId")),
         userId |-> ToNumber(OrElse(Property(payload, "userId"), Num(JsInt(0)))),
         level |-> ToStringOrEmpty(Property(payload, "level")),
         mode |-> OrElse(Property(payload, "mode"), Str(GrRu)).s,
         remainingIds |-> remainingIds,
         totalAsked |-> ToNumber(OrElse(Property(payload, "totalAsked"), Num(JsInt(0)))),
         correctCount |-> ToNumber(OrElse(Property(payload, "correctCount"), Num(JsInt(0)))),
         totalCount |-> ToNumber(OrElse(Property(payload, "totalCount"),
                                        Num(JsInt(Len(remainingIds))))),
         current |-> IF current.t \in {"missing", "null"} THEN None
                     ELSE Some(SessionQuestionFromJson(current)),
         expiresAt |-> ToNumber(OrElse(Property(payload, "expiresAt"), Num(JsInt(0)))),
         updatedAt |-> ToNumber(OrElse(Property(payload, "updatedAt"), Num(JsInt(0))))]

\* the record as a store that keeps numbers as strings returns it
RECURSIVE NumbersAsStrings(_)
NumbersAsStrings(value) ==
    IF value.t = "num" THEN Str(NumberToString(value.n))
    ELSE IF value.t = "arr"
         THEN Arr([i \in 1..Len(value.items) |-> NumbersAsStrings(value.items[i])])
    ELSE IF value.t = "obj"
         THEN Obj([key \in DOMAIN value.fields |-> NumbersAsStrings(value.fields[key])])
    ELSE value

\* the questions of the round trip
RoundTripQuestions ==
    [verbId : {JsInt(0), JsInt(5)},
     options : {<<JsInt(5), JsInt(6), JsInt(7), JsInt(8)>>},
     correctIndex : {JsInt(0), JsInt(3)},
     messageId : {None, Some(JsInt(9))},
     promptText : {None, Some(<<"p">>)},
     questionText : {None, Some(<<"q">>)},
     answerOptions : {None, Some(<<<<"o">>, <<"o", "o">>>>)}]

\* the sessions of the round trip, with and without a current question and with
\* and without recent facts
RoundTripSessions ==
    [sessionId : {<<"s", "1">>},
     userId : {JsInt(1)},
     level : {<<"a", "1">>},
     mode : {GrRu, FactQuiz},
     remainingIds : {<<>>, <<JsInt(2), JsInt(3)>>},
     totalAsked : {JsInt(0), JsInt(4)},
     correctCount : {JsInt(0), JsInt(2)},
     totalCount : {JsInt(0), JsInt(5)},
     current : {None} \cup {Some(question) : question \in RoundTripQuestions},
     expiresAt : {JsInt(7)},
     updatedAt : {JsInt(8)},
     recentFacts : {<<>>, <<<<"f">>>>}]

RoundTripInit ==
    /\ QuizInit
    /\ GenIdle
    /\ calls = NoCalls
    /\ FactIdle
    /\ HandlerIdle
    /\ answerLimit = 0
    /\ sessionLimit = 0
    /\ sinks = {"up"}
    /\ \E session \in RoundTripSessions, asStrings \in BOOLEAN :
          probe = [fn |-> "fromJson", session |-> session, asStrings |-> asStrings,
                   done |-> FALSE, result |-> session]

\* one Session.fromJson(session.item), the record read back with its numbers as
\* numbers or as strings
RoundTripApply ==
    /\ probe.fn = "fromJson"
    /\ ~probe.done
    /\ LET item == SessionItem(probe.session)
           record == IF probe.asStrings THEN NumbersAsStrings(item) ELSE item
       IN  probe' = [probe EXCEPT !.done = TRUE, !.result = SessionFromJson(record)]
    /\ UNCHANGED <<quizVars, limits, genVars, calls, factVars, handlerVars>>

RoundTripNext == RoundTripApply

SpecRoundTrip == RoundTripInit /\ [][RoundTripNext]_vars

\* The recent facts of a fact-quiz session: facts generated one after another,
\* each appended by buildNextQuestion to the list of the session it returns, and
\* the record putSession writes for that session.

\* the fact texts the provider returns
FactTexts == {<<"a">>, <<"b">>}

\* the k facts generated before, alternating
EarlierFacts(k) == [i \in 1..k |-> IF i % 2 = 1 THEN <<"a">> ELSE <<"b">>]

\* a fact-quiz session with the given recent facts
RecentSession(recentFacts) ==
    [sessionId |-> <<"s", "1">>, userId |-> JsInt(1), level |-> <<"a", "1">>,
     mode |-> FactQuiz, remainingIds |-> <<JsInt(2), JsInt(3)>>,
     totalAsked |-> JsInt(0), correctCount |-> JsInt(0), totalCount |-> JsInt(5),
     current |-> None, expiresAt |-> JsInt(7), updatedAt |-> JsInt(8),
     recentFacts |-> recentFacts]

\* the recent-facts property of the record that putSession writes (updated.item)
StoredRecentFacts(session) == Property(SessionItem(session), "recentFacts")

\* a session that has had up to MaxRecentFacts generations
RecentInit ==
    /\ QuizInit
    /\ GenIdle
    /\ calls = NoCalls
    /\ FactIdle
    /\ HandlerIdle
    /\ answerLimit = 0
    /\ sessionLimit = 0
    /\ sinks = {"up"}
    /\ \E k \in 0..MaxRecentFacts :
          probe = [fn |-> "recentFacts", generated |-> EarlierFacts(k), count |-> 0,
                   session |-> RecentSession(EarlierFacts(k)),
                   stored |-> StoredRecentFacts(RecentSession(EarlierFacts(k)))]

\* one successful generation: buildNextQuestion appends the fact to the list of
\* the session it returns, and invoke puts that session
RecentGenerate ==
    /\ probe.fn = "recentFacts"
    /\ probe.count < MaxGenerations
    /\ \E fact \in FactTexts :
         LET nextSession == [probe.session EXCEPT
                                !.recentFacts = AppendRecentFact(@, fact)]
         IN  probe' = [probe EXCEPT !.generated = Append(@, fact),
                                    !.count = @ + 1,
                                    !.session = nextSession,
                                    !.stored = StoredRecentFacts(nextSession)]
    /\ UNCHANGED <<quizVars, limits, genVars, calls, factVars, handlerVars>>

RecentNext == RecentGenerate

SpecRecent == RecentInit /\ [][RecentNext]_vars

\* GameFactory.forUpdate(update) on its own.  An update is modelled by its parts:
\* the data of its callback query (none without a callback query), whether the
\* message of the query has a chat and a message id, whether update.message has a
\* chat, and the text of update.message (none without a text).

\* ChoiceGame.buildInput, FactQuizGame.buildInput, TextTopicGame.buildInput with
\* their prefixes s, f, t: /^<prefix>=([^&]+)&a=(\d+)$/ on the data, then the chat
\* and the message id of the query's message
BuildInput(prefix, upd) ==
    IF /\ IsDefined(upd.data)
       /\ Get(upd.data).form = "answer"
       /\ Get(upd.data).prefix = prefix
       /\ Get(upd.data).digits
       /\ upd.queryMessage
    THEN Some([sessionId |-> Get(upd.data).sessionId])
    ELSE None

\* TextGame.buildInput(update): the chat and the text of update.message
TextBuildInput(upd) ==
    IF upd.messageChat /\ IsDefined(upd.text)
    THEN Some([text |-> Get(upd.text)])
    ELSE None

\* the free-text game asked first
ForUpdateTextFirst(upd) ==
    IF IsDefined(TextBuildInput(upd)) THEN Some("text")
    ELSE IF IsDefined(BuildInput("t", upd)) THEN Some("text-topic")
    ELSE IF IsDefined(BuildInput("f", upd)) THEN Some("fact-quiz")
    ELSE IF IsDefined(BuildInput("s", upd)) THEN Some("choice")
    ELSE None

\* GameFactory.forUpdate(update): the kind of the invocation, the games asked in
\* the order text-topic, fact-quiz, choice, text
ForUpdate(upd) ==
    IF IsDefined(BuildInput("t", upd)) THEN Some("text-topic")
    ELSE IF IsDefined(BuildInput("f", upd)) THEN Some("fact-quiz")
    ELSE IF IsDefined(BuildInput("s", upd)) THEN Some("choice")
    ELSE IF IsDefined(TextBuildInput(upd)) THEN Some("text")
    ELSE None

\* the games whose buildInput takes the update
Claiming(upd) ==
    {kind \in {"text-topic", "fact-quiz", "choice", "text"} :
        IF kind = "text-topic" THEN IsDefined(BuildInput("t", upd))
        ELSE IF kind = "fact-quiz" THEN IsDefined(BuildInput("f", upd))
        ELSE IF kind = "choice" THEN IsDefined(BuildInput("s", upd))
        ELSE IsDefined(TextBuildInput(upd))}

\* the callback data of the updates
FactoryData ==
    {AnswerData(prefix, sessionId, digits) :
        prefix \in {"s", "f", "t", "x"}, sessionId \in SessionIds, digits \in BOOLEAN}
    \cup {Segments(<<Segment("mode", GrRu)>>)}

FactoryUpdates ==
    [data : {None} \cup {Some(data) : data \in FactoryData},
     queryMessage : BOOLEAN,
     messageChat : BOOLEAN,
     text : {None, Some("word")}]

FactoryInit ==
    /\ QuizInit
    /\ GenIdle
    /\ calls = NoCalls
    /\ FactIdle
    /\ HandlerIdle
    /\ answerLimit = 0
    /\ sessionLimit = 0
    /\ sinks = {"up"}
    /\ \E upd \in FactoryUpdates :
          probe = [fn |-> "forUpdate", upd |-> upd, done |-> FALSE,
                   result |-> None, claiming |-> {}]

\* one call GameFactory.forUpdate(update)
FactoryApply ==
    /\ probe.fn = "forUpdate"
    /\ ~probe.done
    /\ probe' = [probe EXCEPT !.done = TRUE, !.result = ForUpdate(probe.upd),
                              !.claiming = Claiming(probe.upd)]
    /\ UNCHANGED <<quizVars, limits, genVars, calls, factVars, handlerVars>>

FactoryNext == FactoryApply

SpecFactory == FactoryInit /\ [][FactoryNext]_vars

\* The renderer: the handler of an update returns its actions, then the actions
\* are rendered one after another.  probe holds the actions still to render, the
\* transport operations performed for the update so far and the session that the
\* question action carries (trackSession).

\* every action rendered as a message sent
RenderActionImplSending(action) == "sendMessage"

\* BaseGame.renderActionImpl(action): the operation of TelegramService it calls
RenderActionImpl(action) ==
    IF action.type = "SendTgMessage" THEN "sendMessage"
    ELSE IF action.type = "UpdateLastMessage" THEN "editMessageText"
    ELSE IF action.type = "SetKeyboard" THEN "editMessageReplyMarkup"
    ELSE IF action.type = "AnswerCallback" THEN "answerCallback"
    ELSE "none"

\* the action carries a session to track
TracksSession(action) == action.type = "SendTgMessage" /\ "sessionId" \in DOMAIN action

\* the trackSession of the question action among the actions: the session as the
\* handler put it
TrackSessionOf(acts, st) ==
    LET tracking == SelectSeq(acts, TracksSession)
    IN  IF tracking = <<>> THEN None ELSE st[tracking[1].sessionId]

\* the action the renderer takes next: the first of those returned and not yet
\* rendered
NextToRender(pending) == Head(pending)

\* The handler of an update (A) runs to its return: nothing is sent, so no message
\* id is handed out; the actions it returned are to be rendered.
Invoked(A) ==
    /\ probe.fn = "renderer"
    /\ probe.pending = <<>>
    /\ A
    /\ nextMessageId' = nextMessageId
    /\ generateCalls' = 0
    /\ probe' = [fn |-> "renderer", pending |-> actions', transport |-> <<>>,
                 trackSession |-> TrackSessionOf(actions', store')]
    /\ UNCHANGED <<limits, genVars, calls, factVars, handlerVars>>

\* one action rendered: renderActionImpl calls the transport, and after a question
\* message trackSessionMessage puts the session with the message id of the response
RenderStep ==
    /\ probe.fn = "renderer"
    /\ probe.pending # <<>>
    /\ LET action == NextToRender(probe.pending)
       IN  /\ probe' = [probe EXCEPT
                          !.pending = Tail(@),
                          !.transport = Append(@, RenderActionImpl(action))]
           /\ IF TracksSession(action) /\ IsDefined(probe.trackSession)
                 /\ nextMessageId <= MaxMessages
              THEN \E messageId \in SendMessageIds :
                     /\ store' = TrackSessionMessage(store, Get(probe.trackSession),
                                                     messageId)
                     /\ nextMessageId' = IF IsDefined(messageId) THEN nextMessageId + 1
                                         ELSE nextMessageId
              ELSE UNCHANGED <<store, nextMessageId>>
    /\ UNCHANGED <<nextSessionId, asked, update, actions, puts, metrics,
                   generateCalls, emission>>
    /\ UNCHANGED <<limits, genVars, calls, factVars, handlerVars>>

\* Level selections and answers of the choice game, each handled to its return
\* and then rendered action by action.
RenderNext ==
    \/ \E chatId \in Users, level \in Levels :
         Invoked(StartPoolSession(chatId, level, GrRu, GrRu, TermsCount(level)))
    \/ \E input \in CallbackInputs("s") :
         Invoked(ChoiceAnswer(input, GetSession(store, input.sessionId)))
    \/ RenderStep

RenderInit ==
    /\ QuizInit
    /\ GenIdle
    /\ calls = NoCalls
    /\ FactIdle
    /\ HandlerIdle
    /\ answerLimit = MaxWindowAsked
    /\ sessionLimit = MaxSessions
    /\ sinks = {"up"}
    /\ probe = [fn |-> "renderer", pending |-> <<>>, transport |-> <<>>,
                trackSession |-> None]

SpecRender == RenderInit /\ [][RenderNext]_vars

----------------------------------------------------------------------------
(* The sampler on its own: createQuestion called again and again on what the *)
(* call before left.                                                         *)

\* a pool of up to MaxPool terms and any set of its indices as the remaining ids
GenInit ==
    /\ QuizInit
    /\ answerLimit = 0
    /\ sessionLimit = 0
    /\ sinks = {"up"}
    /\ genTerms \in 1..MaxPool
    /\ genStart \in SUBSET (0..(genTerms - 1))
    /\ genRemaining = genStart
    /\ genPack = [called |-> FALSE, result |-> None]
    /\ genInput = {}
    /\ genCalls = 0
    /\ calls = NoCalls
    /\ FactIdle
    /\ HandlerIdle
    /\ ProbeIdle

\* one call createQuestion(terms, remainingIds)
GenCall ==
    /\ ~genPack.called
    /\ \E pack \in CreateQuestion(genTerms, genRemaining) :
         /\ genPack' = [called |-> TRUE, result |-> pack]
         /\ genCalls' = IF IsDefined(pack) THEN genCalls + 1 ELSE genCalls
    /\ genInput' = genRemaining
    /\ UNCHANGED <<genTerms, genStart, genRemaining>>
    /\ UNCHANGED <<quizVars, limits, calls, factVars, handlerVars, probe>>

\* the caller keeps the remaining ids of the pack for its next call:
\* copy({current: some(nextPack.question), remainingIds: nextPack.remaining})
GenKeep ==
    /\ genPack.called
    /\ IsDefined(genPack.result)
    /\ genRemaining' = Get(genPack.result).remaining
    /\ genPack' = [called |-> FALSE, result |-> None]
    /\ UNCHANGED <<genTerms, genStart, genInput, genCalls>>
    /\ UNCHANGED <<quizVars, limits, calls, factVars, handlerVars, probe>>

GenNext == GenCall \/ GenKeep

SpecGen == GenInit /\ [][GenNext]_vars

----------------------------------------------------------------------------
(* Properties *)

\* an action of the given kind is among the rendered ones
HasAction(acts, name) ==
    \E i \in 1..Len(acts) : "action" \in DOMAIN acts[i] /\ acts[i].action = name

\* the sessions in the store
Stored == {Get(store[id]) : id \in {i \in SessionIds : IsDefined(store[i])}}

\* the update handled by the step was an answer callback that was scored
ScoredCallback ==
    update'.kind = "callback" /\ HasAction(actions', "renderAnswerResult")

\* the size of the pool a pool-indexed session draws from
PoolSize(session) ==
    IF session.mode = TextTopic THEN TextTopicsCount(session.level)
    ELSE TermsCount(session.level)

\* the counter was incremented
Counted(ms, name) == \E i \in 1..Len(ms) : ms[i] = name

\* the size of the pool a level selection draws from
LevelPool(level, mode) ==
    IF mode = FactQuiz THEN FactTopicsCount(level)
    ELSE IF mode = TextTopic THEN TextTopicsCount(level)
    ELSE TermsCount(level)

\* the sessions of an owner in the store
SessionsOf(st, userId) ==
    {id \in SessionIds : IsDefined(st[id]) /\ Get(st[id]).userId = userId}

\* C1: every accepted answer callback (session found, current question defined,
\* message id not stale) leaves the stored session with totalAsked one higher, and
\* with correctCount one higher when the selected index is the current question's
\* correctIndex and unchanged otherwise.
C1_AcceptedAnswerScoresOnce ==
    [][ScoredCallback =>
          LET was == Get(store[update'.sessionId])
              now == Get(store'[update'.sessionId])
          IN  /\ now.totalAsked = was.totalAsked + 1
              /\ now.correctCount =
                   was.correctCount +
                   (IF update'.answerIndex = Get(was.current).correctIndex THEN 1 ELSE 0)]_vars

\* a session with a right and a wrong answer scored, the last one just now
C1_Witness ==
    /\ update.kind = "callback"
    /\ HasAction(actions, "renderAnswerResult")
    /\ IsDefined(store[update.sessionId])
    /\ Get(store[update.sessionId]).totalAsked = 2
    /\ Get(store[update.sessionId]).correctCount = 1

\* C2: an answer callback whose message id differs from the message id tracked on
\* the current question of its session is not scored: the actions are the
\* "question no longer active" notice, no session is put and the store stays as it
\* was.
C2_StaleAnswerIgnored ==
    [][(/\ update'.kind = "callback"
        /\ IsDefined(store[update'.sessionId])
        /\ IsDefined(Get(store[update'.sessionId]).current)
        /\ IsDefined(Get(Get(store[update'.sessionId]).current).messageId)
        /\ Get(Get(Get(store[update'.sessionId]).current).messageId) # update'.messageId)
       => (/\ actions' = <<[type |-> "AnswerCallback"],
                         [type |-> "SendTgMessage", action |-> "renderInactiveQuestion"]>>
           /\ puts' = <<>>
           /\ metrics' = <<>>
           /\ store' = store)]_vars

\* a callback from the message of the first question, handled while the session
\* tracks the message of its second question
C2_Witness ==
    /\ update.kind = "callback"
    /\ HasAction(actions, "renderInactiveQuestion")
    /\ IsDefined(store[update.sessionId])
    /\ Get(store[update.sessionId]).totalAsked = 1
    /\ Get(Get(store[update.sessionId]).current).messageId = Some(2)
    /\ update.messageId = 1

\* C3: an answer to a session that is absent from the store, or that has no current
\* question, gets the session-not-found notice (for a free-text answer the
\* no-active-session notice), and nothing is put: the store stays as it was.
C3_MissingSessionNoticed ==
    [][/\ (/\ update'.kind = "callback"
           /\ \/ ~IsDefined(store[update'.sessionId])
              \/ ~IsDefined(Get(store[update'.sessionId]).current))
          => (/\ actions' = <<[type |-> "AnswerCallback"],
                            [type |-> "SendTgMessage", action |-> "renderMissingSession"]>>
              /\ puts' = <<>>
              /\ store' = store)
       /\ (/\ update'.kind = "text"
           /\ \A sessionOption \in GetSessionByUserId(store, update'.chatId) :
                \/ ~IsDefined(sessionOption)
                \/ ~IsDefined(Get(sessionOption).current))
          => (/\ actions' = <<[type |-> "SendTgMessage",
                             action |-> "renderNoActiveSession"]>>
              /\ puts' = <<>>
              /\ store' = store)]_vars

\* an answer callback for a session that a restart has deleted
C3_Witness ==
    /\ update.kind = "callback"
    /\ HasAction(actions, "renderMissingSession")
    /\ nextSessionId > update.sessionId
    /\ ~IsDefined(store[update.sessionId])
    /\ puts = <<>>

\* C4: every stored session has totalAsked <= totalCount; stated here for the
\* sessions of the choice game.
C4_AskedWithinTotal ==
    \A session \in Stored : session.mode = GrRu => session.totalAsked <= session.totalCount

\* C5: a stored session whose last question has been answered (every question of
\* the session asked and scored) has no current question and no remaining ids;
\* stated here for the sessions of the choice game.
C5_FinishedSessionHasNoCurrent ==
    \A session \in Stored :
        (session.mode = GrRu /\ session.totalAsked >= session.totalCount)
            => (~IsDefined(session.current) /\ session.remainingIds = {})

C7_QuestionShape ==
    (genPack.called /\ genTerms >= MinTerms /\ genInput # {}) =>
        /\ IsDefined(genPack.result)
        /\ LET question == Get(genPack.result).question
               remaining == Get(genPack.result).remaining
           IN  /\ Len(question.options) = 4
               /\ Cardinality({i \in 1..4 : question.options[i] = question.verbId}) = 1
               /\ question.correctIndex \in 0..3
               /\ At(question.options, question.correctIndex) = question.verbId
               /\ question.verbId \in genInput
               /\ remaining = genInput \ {question.verbId}

\* a question drawn from a pool of 5 with two ids remaining, its key third
C7_Witness ==
    /\ genPack.called
    /\ genTerms = 5
    /\ Cardinality(genInput) = 2
    /\ IsDefined(genPack.result)
    /\ Get(genPack.result).question.correctIndex = 2

\* C8: createQuestion returns none exactly when the remaining ids are empty; fed
\* with what the call before left, it has returned as many questions as ids were
\* left to draw, and returns none once it has returned as many as the run started
\* with.
C8_ExactlyKQuestions ==
    genPack.called =>
        /\ ~IsDefined(genPack.result) <=> genInput = {}
        /\ ~IsDefined(genPack.result) => genCalls = Cardinality(genStart)
        /\ IsDefined(genPack.result) =>
             /\ genCalls <= Cardinality(genStart)
             /\ Cardinality(Get(genPack.result).remaining) =
                  Cardinality(genStart) - genCalls

\* the fourth call of a run that started with three ids returns none
C8_Witness ==
    /\ genPack.called
    /\ ~IsDefined(genPack.result)
    /\ Cardinality(genStart) = 3
    /\ genCalls = 3

\* C9: the current question of a stored pool-indexed session (every mode but the
\* fact quiz) has 4 pairwise distinct options, each an index of the pool, and the
\* option at correctIndex is the answer key.
C9_CurrentQuestionWellFormed ==
    \A session \in Stored :
        (session.mode # FactQuiz /\ IsDefined(session.current)) =>
            LET question == Get(session.current)
            IN  /\ Len(question.options) = 4
                /\ \A i, j \in 1..4 : i # j => question.options[i] # question.options[j]
                /\ \A i \in 1..4 : question.options[i] \in 0..(PoolSize(session) - 1)
                /\ question.correctIndex \in 0..3
                /\ At(question.options, question.correctIndex) = question.verbId

\* a free-text session on its second question, the key the last of its options
C9_Witness ==
    \E session \in Stored :
        /\ session.mode = Write
        /\ session.totalAsked = 1
        /\ IsDefined(session.current)
        /\ Get(session.current).correctIndex = 3

\* C10: a scored answer callback that finds no remaining ids renders no question;
\* a scored answer callback that renders no question puts the session, and its
\* actions end with the session-end summary of the stored correctCount and
\* totalAsked followed by the start menu.
C10_LastAnswerEndsSession ==
    [][ScoredCallback =>
          LET was == Get(store[update'.sessionId])
              now == Get(store'[update'.sessionId])
              n == Len(actions')
          IN  /\ was.remainingIds = {} => ~HasAction(actions', "renderQuestion")
              /\ ~HasAction(actions', "renderQuestion") =>
                   /\ puts' = <<update'.sessionId>>
                   /\ now.totalAsked = was.totalAsked + 1
                   /\ n >= 2
                   /\ actions'[n - 1] =
                        [type |-> "SendTgMessage", action |-> "renderSessionEnd",
                         correctCount |-> now.correctCount,
                         totalAsked |-> now.totalAsked]
                   /\ actions'[n] = SendTgMessage("renderStartMenu")]_vars

\* the fourth answer of a choice session: two right of four, summary then menu
C10_Witness ==
    /\ update.kind = "callback"
    /\ update.prefix = "s"
    /\ Len(actions) = 4
    /\ actions[3] = [type |-> "SendTgMessage", action |-> "renderSessionEnd",
                     correctCount |-> 2, totalAsked |-> 4]
    /\ actions[4] = SendTgMessage("renderStartMenu")
    /\ IsDefined(store[update.sessionId])
    /\ Get(store[update.sessionId]).totalAsked = 4

\* C11: in a session over a pool of N items whose questions were each answered
\* once so far (every question drawn before the current one was scored once), a
\* scored answer callback to one of the N questions, no question build failing,
\* renders the session-end summary exactly when it is the N-th scored answer, and
\* then totalAsked = totalCount = N.
C11_SummaryOnNthAnswer ==
    [][(/\ ScoredCallback
        /\ ~Counted(metrics', "QuestionBuildFailed")
        /\ Cardinality(asked[update'.sessionId]) =
              Get(store[update'.sessionId]).totalAsked + 1
        /\ Get(store[update'.sessionId]).totalAsked <
              LevelPool(Get(store[update'.sessionId]).level,
                        Get(store[update'.sessionId]).mode))
       => LET was == Get(store[update'.sessionId])
              now == Get(store'[update'.sessionId])
              n == LevelPool(was.level, was.mode)
          IN  /\ HasAction(actions', "renderSessionEnd") <=> now.totalAsked = n
              /\ HasAction(actions', "renderSessionEnd") =>
                   (now.totalAsked = now.totalCount /\ now.totalCount = n)]_vars

\* the second answer of a fact quiz over two topics, both questions built: summary
C11_Witness ==
    /\ update.kind = "callback"
    /\ update.prefix = "f"
    /\ HasAction(actions, "renderSessionEnd")
    /\ ~Counted(metrics, "QuestionBuildFailed")
    /\ IsDefined(store[update.sessionId])
    /\ Get(store[update.sessionId]).totalAsked = 2
    /\ Get(store[update.sessionId]).totalCount = 2

\* C12: an owner has at most one session in the store that accepts answers (one
\* with a current question).
C12_OneActiveSessionPerOwner ==
    \A userId \in Users :
        Cardinality({id \in SessionsOf(store, userId) :
                       IsDefined(Get(store[id]).current)}) <= 1

\* C13: once a restart command has been handled, no session of its owner is left
\* in the store.
C13_RestartLeavesNoSession ==
    update.kind = "start" => SessionsOf(store, update.chatId) = {}

\* C14: a restart command of an owner without a session in the store renders the
\* start menu and nothing else, puts no session and leaves the store as it was.
C14_RestartWithoutSession ==
    [][(update'.kind = "start" /\ SessionsOf(store, update'.chatId) = {})
       => (/\ actions' = <<[type |-> "SendTgMessage", action |-> "renderStartMenu"]>>
           /\ puts' = <<>>
           /\ store' = store)]_vars

\* the first update of an owner is a restart command
C14_Witness ==
    /\ update.kind = "start"
    /\ nextSessionId = 1
    /\ Len(actions) = 1
    /\ HasAction(actions, "renderStartMenu")

C16_InsufficientPoolNoSession ==
    [][(/\ update'.kind = "level"
        /\ LevelPool(update'.level, update'.mode) <
              (IF update'.mode = FactQuiz THEN 1 ELSE 4))
       => (/\ actions' = <<[type |-> "AnswerCallback"],
                           [type |-> "UpdateLastMessage",
                            action |-> "renderLevelSelected",
                            level |-> update'.level, mode |-> update'.mode],
                           [type |-> "SendTgMessage",
                            action |-> "renderInsufficientTerms"]>>
           /\ puts' = <<>>
           /\ store' = store
           /\ nextSessionId' = nextSessionId)]_vars

\* the choice game selected for level b1, whose sheet has three terms
C16_Witness ==
    /\ update.kind = "level"
    /\ update.level = "b1"
    /\ update.mode = GrRu
    /\ HasAction(actions, "renderInsufficientTerms")
    /\ nextSessionId = 1
    /\ puts = <<>>

\* C17: an answer whose getSession ran before another answer's putSession is still
\* accepted when its own put comes: it is scored against the session it read, and
\* its put replaces whatever the store holds by then with totalAsked and
\* correctCount counted from the session read (the last writer wins).
C17_LastWriterWins ==
    [][\A h \in Handlers :
         (calls[h].pc = "read" /\ calls'[h].pc = "done")
         => LET read == Get(calls[h].sessionOption)
                input == calls[h].input
                now == Get(store'[input.sessionId])
            IN  /\ HasAction(actions', "renderAnswerResult")
                /\ puts' = <<input.sessionId>>
                /\ now.totalAsked = read.totalAsked + 1
                /\ now.correctCount =
                     read.correctCount +
                     (IF input.answerIndex = Get(read.current).correctIndex
                      THEN 1 ELSE 0)]_vars

\* two overlapping answers to the fourth question were both scored, and the stored
\* session counts one of them
C17_Witness ==
    /\ \A h \in Handlers : calls[h].pc = "done"
    /\ HasAction(actions, "renderAnswerResult")
    /\ HasAction(actions, "renderSessionEnd")
    /\ IsDefined(store[update.sessionId])
    /\ Get(store[update.sessionId]).totalAsked = 4
    /\ Get(store[update.sessionId]).totalCount = 4

NonEmptyString(value) == value.t = "str" /\ value.s # <<>>

\* the response is strict JSON with a non-empty fact of at most 80 words, a
\* non-empty question, exactly 4 non-empty options and a correctIndex in [0,3]
StrictQuestion(request) ==
    /\ request.configured
    /\ request.transport = "content"
    /\ LET text == TrimTokens(request.content)
       IN  /\ Len(text) = 3
           /\ text[1].k = "open"
           /\ text[2].k = "object"
           /\ text[3].k = "close"
           /\ text[2].valid
           /\ LET object == text[2].object
              IN  /\ NonEmptyString(object.fact)
                  /\ CountWords(object.fact.s) <= 80
                  /\ NonEmptyString(object.question)
                  /\ object.options.t = "arr"
                  /\ Len(object.options.items) = 4
                  /\ \A i \in 1..4 : NonEmptyString(object.options.items[i])
                  /\ object.correctIndex.t = "num"
                  /\ object.correctIndex.n.k = "int"
                  /\ object.correctIndex.n.v \in 0..3

\* C19: FactQuestionService.generate returns a question only if the provider
\* response parses as strict JSON with a non-empty fact of at most 80 words, a
\* non-empty question, exactly 4 non-empty options and a correctIndex in [0,3];
\* every other response, provider error or timeout is a generation failure.
C19_QuestionOnlyFromStrictJson ==
    (factResult.kind # "none" /\ ~StrictQuestion(factRequest))
        => factResult.kind = "failure"

\* C19, first half alone: a question is returned only for a strict response
C19_NoQuestionUnlessStrict ==
    factResult.kind = "question" => StrictQuestion(factRequest)

\* C19, second half alone: a response that gives no question is a failure the
\* caller can catch
C19_OtherwiseFailure ==
    factResult.kind \notin {"none", "question"} => factResult.kind = "failure"

\* what does hold: a returned question has a non-empty fact of at most 80 words, a
\* non-empty question, 4 non-empty options and an integer correctIndex in [0,3]
ReturnedQuestionIsValid ==
    factResult.kind = "question" =>
        /\ factResult.question.fact # <<>>
        /\ CountWords(factResult.question.fact) <= 80
        /\ factResult.question.question # <<>>
        /\ Len(factResult.question.options) = 4
        /\ \A i \in 1..4 : factResult.question.options[i] # <<>>
        /\ factResult.question.correctIndex.k = "int"
        /\ factResult.question.correctIndex.v \in 0..3


\* C20: for every inbound event, including an unparsable body and any exception
\* thrown while handling the update, the handler returns the same fixed
\* acknowledgement (status 200, body "ok"); no exception escapes it, and when an
\* exception occurred an Error observation is recorded.
C20_AlwaysAcknowledged ==
    response.kind # "none" =>
        /\ response.kind = "returned"
        /\ response.statusCode = 200
        /\ response.body = "ok"
        /\ (response.exception => \E i \in 1..Len(response.observations) :
                                      response.observations[i] = "Error")

\* what does hold: an invocation in which the provider's body is JSON, or that
\* does not reach the provider, is acknowledged, with an Error observation when
\* handleUpdate threw
AcknowledgedUnlessGarbled ==
    (response.kind # "none" /\ invocation.provider.transport # "garbled") =>
        /\ response.kind = "returned"
        /\ response.statusCode = 200
        /\ response.body = "ok"
        /\ (response.exception <=> response.observations = <<"Error", "ErrorTotal">>)

\* an event whose body cannot be parsed is acknowledged without an exception
UnparsableBodyAcknowledged ==
    (response.kind # "none" /\ invocation.event.body.kind = "text"
        /\ invocation.event.body.payload = "garbage") =>
        response = [kind |-> "returned", statusCode |-> 200, body |-> "ok",
                    exception |-> FALSE, observations |-> <<>>]


\* C21: a failure of the metrics sink while emitting an observation is caught and
\* logged only: it never propagates to the caller and does not change the render
\* actions returned or the session stored by that update.  An update handled while
\* the sink is down throws nothing from its counters, logs each of them and
\* delivers none, and still has its result: a scored answer is stored with one
\* more asked question and rendered, a started session is stored and rendered, an
\* invalid answer is reported.
C21_MetricsFailureSwallowed ==
    [][emission'.sink = "down" =>
        /\ ~emission'.threw
        /\ emission'.delivered = <<>>
        /\ emission'.warnings = metrics'
        /\ Counted(metrics', "QuestionAnswered") =>
             /\ actions' # <<>>
             /\ puts' # <<>>
             /\ \E id \in SessionIds :
                  /\ IsDefined(store[id])
                  /\ IsDefined(store'[id])
                  /\ Get(store'[id]).totalAsked = Get(store[id]).totalAsked + 1
        /\ Counted(metrics', "SessionStart") =>
             /\ actions' # <<>>
             /\ IsDefined(store'[nextSessionId])
             /\ Get(store'[nextSessionId]).totalAsked = 0
        /\ Counted(metrics', "InvalidAnswer") => actions' # <<>>]_vars

C21_Witness ==
    /\ emission.sink = "down"
    /\ emission.warnings = <<"QuestionAnswered", "QuestionAnsweredTotal",
                             "QuestionAnsweredCorrect">>
    /\ update.kind = "callback"
    /\ HasAction(actions, "renderAnswerResult")
    /\ IsDefined(store[update.sessionId])
    /\ Get(store[update.sessionId]).totalAsked = 1


\* the question render actions among the rendered ones
QuestionRenders(acts) ==
    SelectSeq(acts, LAMBDA a : "action" \in DOMAIN a /\ a.action = "renderQuestion")

\* the actions end with one question render, the only one, showing question
\* index of total
OneQuestionRender(acts, index, total) ==
    /\ Len(QuestionRenders(acts)) = 1
    /\ acts[Len(acts)] = QuestionRenders(acts)[1]
    /\ QuestionRenders(acts)[1].currentQuestionIndex = index
    /\ QuestionRenders(acts)[1].totalQuestions = total

\* the step selected a level and rendered a question
LevelRendered == update'.kind = "level" /\ HasAction(actions', "renderQuestion")

\* the step scored an answer callback that was not yet the last of the N answers
\* of its session
ScoredBeforeLast ==
    /\ ScoredCallback
    /\ Get(store'[update'.sessionId]).totalAsked <
          LevelPool(Get(store[update'.sessionId]).level,
                    Get(store[update'.sessionId]).mode)

HasDiacritic(t) == \E i \in 1..Len(t) : t[i].accent \/ t[i].diaeresis

\* the text with the diacritic marks removed
WithoutDiacritics(t) ==
    [i \in 1..Len(t) |-> [t[i] EXCEPT !.accent = FALSE, !.diaeresis = FALSE]]

\* the text trimmed and in lower case
Lowered(t) ==
    LET inked == {i \in 1..Len(t) : t[i] # Space}
        trimmed == IF inked = {} THEN <<>>
                   ELSE SubSeq(t, CHOOSE i \in inked : \A j \in inked : i <= j,
                                  CHOOSE i \in inked : \A j \in inked : j <= i)
    IN  [i \in 1..Len(trimmed) |-> [trimmed[i] EXCEPT !.upper = FALSE]]

\* C23: a free-text answer matches the target iff, after trimming and lowercasing
\* both, either the answer carries no diacritic mark and equals the target once
\* diacritics are stripped from both sides, or the answer carries a diacritic mark
\* and equals the target exactly.
C23_AsymmetricDiacriticRule ==
    (probe.fn = "matchesGreekInput" /\ probe.done) =>
        LET answer == Lowered(probe.input)
            target == Lowered(probe.correct)
        IN  probe.result <=>
              \/ ~HasDiacritic(answer) /\ answer = WithoutDiacritics(target)
              \/ HasDiacritic(answer) /\ answer = target

\* what does hold: the rule with the accent marks in place of the diacritic marks,
\* a diaeresis being part of the letter
AsymmetricAccentRule ==
    (probe.fn = "matchesGreekInput" /\ probe.done) =>
        LET answer == Lowered(probe.input)
            target == Lowered(probe.correct)
            hasAccent == \E i \in 1..Len(answer) : answer[i].accent
            plain(t) == [i \in 1..Len(t) |-> [t[i] EXCEPT !.accent = FALSE]]
        IN  probe.result <=>
              \/ ~hasAccent /\ answer = plain(target)
              \/ hasAccent /\ answer = target


UnknownModeIsGrRu ==
    [][(/\ update'.kind = "menu"
        /\ update'.data = [form |-> "segments",
                           segs |-> <<[key |-> "mode", value |-> "unknown"]>>])
       => /\ Len(actions') = 2
          /\ actions'[2].mode = "gr-ru"
          /\ RenderMenuPayload(actions'[2]).keyboard = "category"
          /\ store' = store]_vars

C27_UnsupportedCommandNotice ==
    [][update'.kind = "command"
       => /\ update'.text.word \in {"/help", "/"}
          /\ actions' = <<[type |-> "SendTgMessage",
                           action |-> "renderUnsupportedCommand"]>>
          /\ store' = store
          /\ nextSessionId' = nextSessionId
          /\ puts' = <<>>]_vars

\* "  /HELP  " sent while a session is stored
C27_Witness ==
    /\ update.kind = "command"
    /\ update.text = [word |-> "/help", padded |-> TRUE, upper |-> TRUE]
    /\ actions = <<[type |-> "SendTgMessage", action |-> "renderUnsupportedCommand"]>>
    /\ Stored # {}

\* the callback data that is a menu pattern or an answer pattern: it begins with
\* mode:, or it is level:<level>|mode:<mode> with one of ru-gr, gr-ru, write, or
\* it is s=, t= or f= with a session id, &a= and digits
MatchesPattern(data) ==
    \/ /\ data.form = "segments"
       /\ data.segs # <<>>
       /\ data.segs[1].key = "mode"
    \/ /\ data.form = "segments"
       /\ Len(data.segs) = 2
       /\ data.segs[1].key = "level" /\ data.segs[1].value \in {"a1", "b1"}
       /\ data.segs[2].key = "mode" /\ data.segs[2].value \in {"ru-gr", "gr-ru", "write"}
    \/ /\ data.form = "answer"
       /\ data.prefix \in {"s", "t", "f"}
       /\ data.digits

CategoryOf(metadata) ==
    IF "category" \in DOMAIN metadata THEN <<metadata.category>> ELSE <<>>

\* level:<level>|mode:<mode> with any of the five modes, a category segment after
\* it or not
IsLevelSelection(data) ==
    /\ data.form = "segments"
    /\ Len(data.segs) \in {2, 3}
    /\ data.segs[1].key = "level" /\ data.segs[1].value \in {"a1", "b1"}
    /\ data.segs[2].key = "mode"
    /\ data.segs[2].value \in {"gr-ru", "ru-gr", "write", "text-topic", "fact-quiz"}
    /\ Len(data.segs) = 3 => data.segs[3].key = "category"

\* C25: parseLevel returns the level, the mode and the optional category for every
\* string of the form level:<level>|mode:<mode>[|category:<category>] with any of
\* the five modes, and none for every other string.
C25_ParseLevelAllForms ==
    (probe.fn = "parseLevel" /\ probe.done)
    => IF IsLevelSelection(probe.data)
       THEN /\ Len(probe.result) = 1
            /\ probe.result[1].level = probe.data.segs[1].value
            /\ probe.result[1].mode = probe.data.segs[2].value
            /\ CategoryOf(probe.result[1]) =
                 (IF Len(probe.data.segs) = 3
                  THEN <<probe.data.segs[3].value>> ELSE <<>>)
       ELSE probe.result = <<>>

\* what parseLevel does: level and mode for level:<level>|mode:<mode> with ru-gr,
\* gr-ru or write and nothing after the mode, none for every other string
ParseLevelThreeModes ==
    (probe.fn = "parseLevel" /\ probe.done)
    => IF /\ IsLevelSelection(probe.data)
          /\ Len(probe.data.segs) = 2
          /\ probe.data.segs[2].value \in {"gr-ru", "ru-gr", "write"}
       THEN probe.result = <<[level |-> probe.data.segs[1].value,
                              mode |-> probe.data.segs[2].value]>>
       ELSE probe.result = <<>>

\* level:a1|mode:ru-gr|category:verbs parsed: none
ParseLevelDropsCategory ==
    /\ probe.fn = "parseLevel" /\ probe.done
    /\ probe.data = [form |-> "segments",
                     segs |-> <<[key |-> "level", value |-> "a1"],
                                [key |-> "mode", value |-> "ru-gr"],
                                [key |-> "category", value |-> "verbs"]>>]
    /\ probe.result = <<>>


\* the fields that Session declares are those of the session the record was made
\* of, the nested question with them
DeclaredFieldsRestored ==
    /\ probe.result.sessionId = probe.session.sessionId
    /\ probe.result.userId = probe.session.userId
    /\ probe.result.level = probe.session.level
    /\ probe.result.mode = probe.session.mode
    /\ probe.result.remainingIds = probe.session.remainingIds
    /\ probe.result.totalAsked = probe.session.totalAsked
    /\ probe.result.correctCount = probe.session.correctCount
    /\ probe.result.totalCount = probe.session.totalCount
    /\ probe.result.current = probe.session.current
    /\ probe.result.expiresAt = probe.session.expiresAt
    /\ probe.result.updatedAt = probe.session.updatedAt

\* C26: for every Session s, with or without a current question, reconstructing a
\* Session from the storage record of s yields a Session equal to s, including the
\* nested SessionQuestion and the recent-facts list, also when the numeric fields
\* of the record arrive as strings.
C26_SessionRoundTrip ==
    (probe.fn = "fromJson" /\ probe.done)
    => /\ DeclaredFieldsRestored
       /\ "recentFacts" \in DOMAIN probe.result
       /\ probe.result.recentFacts = probe.session.recentFacts

\* what the round trip keeps: every field but the recent-facts list
RoundTripOfDeclaredFields ==
    (probe.fn = "fromJson" /\ probe.done) => DeclaredFieldsRestored

\* a session with a current question and one recent fact read back from a record
\* whose numbers are strings: the question is restored, the recent fact is gone
RoundTripLosesRecentFacts ==
    /\ probe.fn = "fromJson" /\ probe.done
    /\ probe.asStrings
    /\ probe.session.recentFacts = <<<<"f">>>>
    /\ Len(probe.session.current) = 1
    /\ probe.session.current[1].messageId = <<[k |-> "int", v |-> 9]>>
    /\ probe.result.current = probe.session.current
    /\ "recentFacts" \notin DOMAIN probe.result


\* C29: an answer callback is only ever scored against the question that was
\* displayed in the message the callback came from: the question the answer is
\* scored against is tracked with the message id of the callback.  In particular,
\* after the next question has been put and before its message id is tracked, a
\* tap on the message of the previous question is not scored against the new one.
C29_ScoredAgainstDisplayedQuestion ==
    [][(update'.kind = "callback" /\ HasAction(actions', "renderAnswerResult"))
       => /\ Len(store[update'.sessionId]) = 1
          /\ Len(store[update'.sessionId][1].current) = 1
          /\ store[update'.sessionId][1].current[1].messageId = <<update'.messageId>>]_vars

\* an answer is scored only against a question that is tracked with the message of
\* the callback or is not tracked at all
ScoredUnlessTrackedElsewhere ==
    [][(update'.kind = "callback" /\ HasAction(actions', "renderAnswerResult"))
       => /\ Len(store[update'.sessionId]) = 1
          /\ Len(store[update'.sessionId][1].current) = 1
          /\ store[update'.sessionId][1].current[1].messageId
               \in {<<>>, <<update'.messageId>>}]_vars

\* a second tap on message 1 scored while the question that followed the first tap
\* waits to be sent: it is scored against that question
TapScoredInWindow ==
    \E h \in Handlers :
        /\ calls[h].pc = "render"
        /\ calls[h].trackSession.totalAsked = 1
        /\ calls[h].trackSession.current[1].messageId = <<>>
        /\ update.kind = "callback"
        /\ update.messageId = 1
        /\ HasAction(actions, "renderAnswerResult")
        /\ Len(store[update.sessionId]) = 1
        /\ store[update.sessionId][1].totalAsked = 2


\* the session-end summary of the choice session has been emitted: every one of its
\* questions has been answered
SummaryEmitted(id) ==
    /\ Len(store[id]) = 1
    /\ store[id][1].mode = "gr-ru"
    /\ store[id][1].remainingIds = {}
    /\ store[id][1].totalAsked >= store[id][1].totalCount

\* C30: after the session-end summary has been emitted for a session, no further
\* answer is scored against it: its totalAsked and correctCount never change again
\* and no second summary is emitted for it.
C30_NothingScoredAfterSummary ==
    [][\A id \in SessionIds :
         (SummaryEmitted(id) /\ Len(store'[id]) = 1)
         => /\ store'[id][1].totalAsked = store[id][1].totalAsked
            /\ store'[id][1].correctCount = store[id][1].correctCount
            /\ ~(/\ update'.kind = "callback"
                 /\ update'.sessionId = id
                 /\ HasAction(actions', "renderSessionEnd"))]_vars

\* a tap on the message of the last question after the summary: a fifth answer of
\* four is scored and the summary is emitted again
SecondSummaryEmitted ==
    /\ update.kind = "callback"
    /\ HasAction(actions, "renderSessionEnd")
    /\ Len(store[update.sessionId]) = 1
    /\ store[update.sessionId][1].totalCount = 4
    /\ store[update.sessionId][1].totalAsked = 5


\* the session id was stored with a question and its record has been deleted
Deleted(id) == asked[id] # {} /\ store[id] = <<>>

\* C31: once a restart command has deleted a session, no later store write
\* re-creates a record with that session id: an answer step or a message-tracking
\* step that read the session before the delete does not put it back afterwards.
C31_DeletedStaysDeleted ==
    [][\A id \in SessionIds : Deleted(id) => store'[id] = <<>>]_vars


\* C32: the message-id tracking write performed after a question message is sent
\* changes only the message id of the current question: it never reverts the
\* counters, the remaining ids or the current question that another update for
\* the same session has written in the meantime.
C32_TrackingChangesMessageIdOnly ==
    [][(update'.kind = "render" /\ Len(store[update'.sessionId]) = 1)
       => /\ Len(store'[update'.sessionId]) = 1
          /\ store'[update'.sessionId][1].totalAsked
               = store[update'.sessionId][1].totalAsked
          /\ store'[update'.sessionId][1].correctCount
               = store[update'.sessionId][1].correctCount
          /\ store'[update'.sessionId][1].remainingIds
               = store[update'.sessionId][1].remainingIds
          /\ Len(store'[update'.sessionId][1].current)
               = Len(store[update'.sessionId][1].current)
          /\ Len(store[update'.sessionId][1].current) = 1
             => /\ store'[update'.sessionId][1].current[1].verbId
                     = store[update'.sessionId][1].current[1].verbId
                /\ store'[update'.sessionId][1].current[1].options
                     = store[update'.sessionId][1].current[1].options]_vars

\* a tracking write with no other write since the put of its question changes the
\* message id of the current question and nothing else
TrackingAloneChangesMessageIdOnly ==
    [][(/\ update'.kind = "render"
        /\ store[update'.sessionId] = <<calls[1].trackSession>>)
       => store'[update'.sessionId] =
            <<[calls[1].trackSession EXCEPT
                 !.current = <<[calls[1].trackSession.current[1] EXCEPT
                                  !.messageId = <<nextMessageId>>]>>]>>]_vars

\* a tracking write after an answer scored in between: the second answer is gone
\* from the counters
TrackingRevertedAnswer ==
    /\ update.kind = "render"
    /\ Len(store[update.sessionId]) = 1
    /\ store[update.sessionId][1].totalAsked = 1
    /\ Cardinality(asked[update.sessionId]) = 3


\* the questions of the session accounted for: those answered, those remaining
\* and the one outstanding
Accounted(session) ==
    session.totalAsked + Cardinality(session.remainingIds)
        + (IF session.current = <<>> THEN 0 ELSE 1)

\* C33: every stored session satisfies totalAsked + |remainingIds| + (1 if current
\* is defined, else 0) = totalCount, from creation through completion; stated here
\* for the sessions of the choice game.
C33_QuestionsAccountedFor ==
    \A id \in SessionIds :
        (Len(store[id]) = 1 /\ store[id][1].mode = "gr-ru")
            => Accounted(store[id][1]) = store[id][1].totalCount

\* the equation holds of a choice session as long as a question of it is unanswered
AccountedWhileInProgress ==
    \A id \in SessionIds :
        (/\ Len(store[id]) = 1
         /\ store[id][1].mode = "gr-ru"
         /\ store[id][1].totalAsked < store[id][1].totalCount)
            => Accounted(store[id][1]) = store[id][1].totalCount

\* the choice session of level a1 after its fourth answer: nothing remains, four
\* of four are answered and the current question is still there
CompletedCountsCurrent ==
    \E id \in SessionIds :
        /\ Len(store[id]) = 1
        /\ store[id][1].mode = "gr-ru"
        /\ store[id][1].totalAsked = 4
        /\ store[id][1].totalCount = 4
        /\ store[id][1].remainingIds = {}
        /\ Len(store[id][1].current) = 1


\* every stored session has 0 <= correctCount <= totalAsked
CorrectWithinAsked ==
    \A id \in SessionIds :
        Len(store[id]) = 1
            => /\ 0 <= store[id][1].correctCount
               /\ store[id][1].correctCount <= store[id][1].totalAsked

\* no step takes a counter of a stored session back
CountersNeverDecrease ==
    [][\A id \in SessionIds :
         (Len(store[id]) = 1 /\ Len(store'[id]) = 1)
            => /\ store'[id][1].totalAsked >= store[id][1].totalAsked
               /\ store'[id][1].correctCount >= store[id][1].correctCount]_vars

\* C34: in every reachable state every stored session satisfies
\* 0 <= correctCount <= totalAsked, and neither counter ever decreases over the
\* life of the session.
C34_CountersBoundedAndMonotonic ==
    [][\A id \in SessionIds :
         /\ Len(store'[id]) = 1
            => /\ 0 <= store'[id][1].correctCount
               /\ store'[id][1].correctCount <= store'[id][1].totalAsked
         /\ (Len(store[id]) = 1 /\ Len(store'[id]) = 1)
            => /\ store'[id][1].totalAsked >= store[id][1].totalAsked
               /\ store'[id][1].correctCount >= store[id][1].correctCount]_vars


\* the number of AnswerCallback actions of a list
RECURSIVE Acknowledgements(_)
Acknowledgements(acts) ==
    IF acts = <<>> THEN 0
    ELSE (IF Head(acts).type = "AnswerCallback" THEN 1 ELSE 0)
         + Acknowledgements(Tail(acts))

\* one AnswerCallback, at the head of the list
AcknowledgedFirst(acts) ==
    /\ acts # <<>>
    /\ acts[1] = [type |-> "AnswerCallback"]
    /\ Acknowledgements(acts) = 1

\* C35: every update that carries a callback query yields exactly one
\* AnswerCallback action, and that action precedes every other action produced for
\* the update, whichever branch handles it (every step of SpecUpdate is such an
\* update).
C35_CallbackAcknowledgedFirst ==
    [][AcknowledgedFirst(actions')]_vars

\* every callback that reaches a branch (menu, level, accepted answer, missing
\* session, stale question, unrecognized data) is acknowledged once, first
AcknowledgedFirstInEveryBranch ==
    [][update'.kind # "ignored" => AcknowledgedFirst(actions')]_vars

\* a callback update without a top-level message has been handled: no action
CallbackIgnored ==
    /\ update.kind = "ignored"
    /\ update.messageChat = <<>>
    /\ update.queryMessage
    /\ actions = <<>>


\* the action renders a question / an answer result
IsQuestionRender(a) == "action" \in DOMAIN a /\ a.action = "renderQuestion"

IsAnswerResult(a) == "action" \in DOMAIN a /\ a.action = "renderAnswerResult"

\* The step scores the answer to the question that the update before it rendered
\* (render, of the session the step puts), and shows the result (result).
AnswersRendered(render, result) ==
    /\ IsQuestionRender(render)
    /\ IsAnswerResult(result)
    /\ update'.kind \in {"callback", "text"}
    /\ \E k \in 1..Len(puts') : puts'[k] = render.sessionId

\* C36: in every variant, the answer-result action emitted for the n-th question
\* of a session carries the same question index n and the same total as the
\* render of that question.
C36_ResultCarriesQuestionIndex ==
    [][\A j \in 1..Len(actions), i \in 1..Len(actions') :
         AnswersRendered(actions[j], actions'[i])
            => /\ actions'[i].currentQuestionIndex = actions[j].currentQuestionIndex
               /\ actions'[i].totalQuestions = actions[j].totalQuestions]_vars

\* the same of the fact quiz and the text-topic game alone
ResultIndexOfFactAndTopic ==
    [][\A j \in 1..Len(actions), i \in 1..Len(actions') :
         (AnswersRendered(actions[j], actions'[i]) /\ update'.kind = "callback"
          /\ update'.prefix \in {"f", "t"})
            => /\ actions'[i].currentQuestionIndex = actions[j].currentQuestionIndex
               /\ actions'[i].totalQuestions = actions[j].totalQuestions]_vars

\* in the choice game and the free-text game the result shows the total of the
\* render and the index after it
ResultIndexOfChoiceAndText ==
    [][\A j \in 1..Len(actions), i \in 1..Len(actions') :
         (AnswersRendered(actions[j], actions'[i])
          /\ (update'.kind = "text" \/ update'.prefix = "s"))
            => /\ actions'[i].currentQuestionIndex = actions[j].currentQuestionIndex + 1
               /\ actions'[i].totalQuestions = actions[j].totalQuestions]_vars


\* the last 20 of the facts generated, in the order of their generation
LastGenerated(generated) ==
    LET kept == IF Len(generated) <= 20 THEN Len(generated) ELSE 20
    IN  [i \in 1..kept |-> generated[Len(generated) - kept + i]]

\* C37: after any number of successful AI-fact generations in a session, the
\* stored recent-facts list holds at most 20 entries, and they are the most
\* recently generated fact texts in generation order (the oldest dropped first).
C37_StoredRecentFacts ==
    (probe.fn = "recentFacts" /\ probe.count > 0)
        => /\ probe.stored.t = "arr"
           /\ Len(probe.stored.items) <= 20
           /\ probe.stored.items =
                [i \in 1..Len(LastGenerated(probe.generated)) |->
                    Str(LastGenerated(probe.generated)[i])]

\* the list of the session that buildNextQuestion returns holds at most 20 facts,
\* the last generated, in the order of their generation
RecentFactsOfReturnedSession ==
    probe.fn = "recentFacts"
        => /\ Len(probe.session.recentFacts) <= 20
           /\ probe.session.recentFacts = LastGenerated(probe.generated)

\* more than 20 facts were generated: the list of the returned session has
\* dropped the oldest, the record written has no list
OldestDroppedNothingStored ==
    /\ probe.fn = "recentFacts"
    /\ Len(probe.generated) = 22
    /\ probe.generated[1] = <<"a">> /\ probe.generated[22] = <<"b">>
    /\ Len(probe.session.recentFacts) = 20
    /\ probe.session.recentFacts[1] = <<"a">>
    /\ probe.session.recentFacts[20] = <<"b">>
    /\ probe.stored.t = "missing"


\* the update carries an answer callback with the prefix: <prefix>=<sessionId>&a=
\* and an index of digits, from a message with a chat and a message id
AnswerCallbackOf(upd, prefix) ==
    /\ upd.data # <<>>
    /\ upd.data[1].form = "answer"
    /\ upd.data[1].prefix = prefix
    /\ upd.data[1].digits
    /\ upd.queryMessage

TextRouted ==
    /\ probe.fn = "forUpdate" /\ probe.done
    /\ probe.upd.data = <<>>
    /\ probe.result = <<"text">>
    /\ probe.claiming = {"text"}


\* the transport operation of an action, by its type
OperationOf(action) ==
    IF action.type = "SendTgMessage" THEN "sendMessage"
    ELSE IF action.type = "UpdateLastMessage" THEN "editMessageText"
    ELSE IF action.type = "AnswerCallback" THEN "answerCallback"
    ELSE "editMessageReplyMarkup"

====
